---- MODULE Spec2Model ----
(***************************************************************************)
(* Device state machine of the bilge-water monitor                         *)
(* (include/StateMachine.h): emergency condition evaluator, transition     *)
(* table, notification throttler, horn pulse controller and silence        *)
(* toggle, driven by sensor readings, a millisecond clock, the config      *)
(* session signal and the button.                                          *)
(***************************************************************************)
EXTENDS Integers, Naturals, Sequences, FiniteSets, TLC

\* ------------------------------------------------------------------------
\* Bounds of the model
\* ------------------------------------------------------------------------

\* the clock is followed for this many milliseconds after boot
MaxTime == 3000

\* width of the millisecond clock in the model (uint32_t in the source; the
\* clock never wraps within MaxTime, differences are taken modulo 2^ClockBits)
ClockBits == 20

\* notification interval the caller configures in the context
\* (emergencyNotifFreq_ms), short enough for alerts to fall due within MaxTime
NotifFreq == 2000

\* time that passes between two consecutive polling ticks
Steps == {500, 1000}

\* water levels delivered by the sensor: below tier 1, at the tier-1
\* threshold, at the tier-2 threshold
Levels == {10, 30, 50}

\* ------------------------------------------------------------------------
\* enum State
\* ------------------------------------------------------------------------
ERROR == "ERROR"
NORMAL == "NORMAL"
EMERGENCY == "EMERGENCY"
CONFIG == "CONFIG"

State == {ERROR, NORMAL, EMERGENCY, CONFIG}

\* constexpr uint32_t EMERGENCY_TIMEOUT_MS
EMERGENCY_TIMEOUT_MS == 1000

ClockModulus == 2 ^ ClockBits

\* variant: the difference of the two clock values as signed numbers
Elapsed_Signed(currentTime, then) == currentTime - then

\* unsigned difference currentTime - then of two clock values
Elapsed(currentTime, then) == (currentTime - then) % ClockModulus

\* struct StateMachineSensorReading
StateMachineSensorReading == [valid : BOOLEAN, level_cm : Levels]

\* StateMachineContext(): the context after construction
StateMachineContext ==
    [ currentState                 |-> NORMAL,
      lastStateChangeTime          |-> 0,
      emergencyConditionsTrueTime  |-> 0,
      emergencyConditionsFalseTime |-> 0,
      lastEmergencyMessageTime     |-> 0,
      lastHornToggleTime           |-> 0,
      emergencyConditions          |-> FALSE,
      urgentEmergencyConditions    |-> FALSE,
      hornCurrentlyOn              |-> FALSE,
      sensorError                  |-> FALSE,
      configCommandReceived        |-> FALSE,
      notificationsSilenced        |-> FALSE,
      emergencyWaterLevel_cm       |-> 30,
      urgentEmergencyWaterLevel_cm |-> 50,
      emergencyNotifFreq_ms        |-> NotifFreq,
      hornOnDuration_ms            |-> 1000,
      hornOffDuration_ms           |-> 1000 ]

\* StateMachineOutput(): the output after construction
StateMachineOutput ==
    [ stateChanged              |-> FALSE,
      newState                  |-> NORMAL,
      setHornState              |-> FALSE,
      hornOn                    |-> FALSE,
      sendEmergencyNotification |-> FALSE,
      sendSilenceConfirmation   |-> FALSE,
      sendUnsilenceConfirmation |-> FALSE,
      message                   |-> << >> ]

\* the message texts; the level is carried next to the text
MsgUrgent == "Boat Monitor URGENT Alert: Tier 2 Emergency Level Reached - Critical Level"
MsgStandard == "Boat Monitor Alert: Emergency Level"
MsgSilenced == "Boat Monitor: Emergency alerts have been temporarily silenced"
MsgReenabled == "Boat Monitor: Emergency alerts have been re-enabled"

\* ------------------------------------------------------------------------
\* The functions of StateMachine.h
\* ------------------------------------------------------------------------

\* variant: the rising edge of tier 1 is not time-stamped
updateEmergencyConditions_NoRiseStamp(c, reading, currentTime) ==
    LET previousEmergencyConditions == c.emergencyConditions
        c1 == IF reading.level_cm >= c.emergencyWaterLevel_cm
              THEN [c EXCEPT !.emergencyConditions = TRUE]
              ELSE [c EXCEPT !.emergencyConditions = FALSE,
                             !.emergencyConditionsFalseTime =
                                 IF previousEmergencyConditions
                                 THEN currentTime ELSE @]
    IN  [c1 EXCEPT !.urgentEmergencyConditions =
                       (reading.level_cm >= c.urgentEmergencyWaterLevel_cm)]

\* variant: an invalid reading leaves the tier flags as they were
updateEmergencyConditions_ValidOnly(c, reading, currentTime) ==
    IF ~reading.valid THEN c
    ELSE LET previousEmergencyConditions == c.emergencyConditions
             c1 == IF reading.level_cm >= c.emergencyWaterLevel_cm
                   THEN [c EXCEPT !.emergencyConditions = TRUE,
                                  !.emergencyConditionsTrueTime =
                                      IF ~previousEmergencyConditions
                                      THEN currentTime ELSE @]
                   ELSE [c EXCEPT !.emergencyConditions = FALSE,
                                  !.emergencyConditionsFalseTime =
                                      IF previousEmergencyConditions
                                      THEN currentTime ELSE @]
         IN  [c1 EXCEPT !.urgentEmergencyConditions =
                            (reading.level_cm >= c.urgentEmergencyWaterLevel_cm)]

\* variant: the fall timestamp is written on every tick below the threshold
updateEmergencyConditions_StampWhileLow(c, reading, currentTime) ==
    LET previousEmergencyConditions == c.emergencyConditions
        c1 == IF reading.level_cm >= c.emergencyWaterLevel_cm
              THEN [c EXCEPT !.emergencyConditions = TRUE,
                             !.emergencyConditionsTrueTime =
                                 IF ~previousEmergencyConditions
                                 THEN currentTime ELSE @]
              ELSE [c EXCEPT !.emergencyConditions = FALSE,
                             !.emergencyConditionsFalseTime = currentTime]
    IN  [c1 EXCEPT !.urgentEmergencyConditions =
                       (reading.level_cm >= c.urgentEmergencyWaterLevel_cm)]

updateEmergencyConditions(c, reading, currentTime) ==
    LET previousEmergencyConditions == c.emergencyConditions
        c1 == IF reading.level_cm >= c.emergencyWaterLevel_cm
              THEN [c EXCEPT !.emergencyConditions = TRUE,
                             !.emergencyConditionsTrueTime =
                                 IF ~previousEmergencyConditions
                                 THEN currentTime ELSE @]
              ELSE [c EXCEPT !.emergencyConditions = FALSE,
                             !.emergencyConditionsFalseTime =
                                 IF previousEmergencyConditions
                                 THEN currentTime ELSE @]
    IN  [c1 EXCEPT !.urgentEmergencyConditions =
                       (reading.level_cm >= c.urgentEmergencyWaterLevel_cm)]

\* variant: EMERGENCY is left after it has been held for the timeout
computeNextState_ExitOnHeld(c, reading, currentTime, configServerActive) ==
    CASE c.currentState = ERROR ->
           IF ~c.sensorError THEN NORMAL
           ELSE IF c.configCommandReceived THEN CONFIG
           ELSE c.currentState
      [] c.currentState = NORMAL ->
           IF c.sensorError THEN ERROR
           ELSE IF c.emergencyConditions
                   /\ Elapsed(currentTime, c.emergencyConditionsTrueTime)
                        >= EMERGENCY_TIMEOUT_MS
                THEN EMERGENCY
           ELSE IF c.configCommandReceived THEN CONFIG
           ELSE c.currentState
      [] c.currentState = CONFIG ->
           IF ~configServerActive /\ ~c.configCommandReceived THEN NORMAL
           ELSE c.currentState
      [] c.currentState = EMERGENCY ->
           IF ~c.emergencyConditions
              /\ Elapsed(currentTime, c.lastStateChangeTime)
                   >= EMERGENCY_TIMEOUT_MS
           THEN NORMAL
           ELSE c.currentState

\* variant: in NORMAL the emergency test comes before the sensor-error test
computeNextState_EmergencyFirst(c, reading, currentTime, configServerActive) ==
    CASE c.currentState = ERROR ->
           IF ~c.sensorError THEN NORMAL
           ELSE IF c.configCommandReceived THEN CONFIG
           ELSE c.currentState
      [] c.currentState = NORMAL ->
           IF c.emergencyConditions
              /\ Elapsed(currentTime, c.emergencyConditionsTrueTime)
                   >= EMERGENCY_TIMEOUT_MS
           THEN EMERGENCY
           ELSE IF c.sensorError THEN ERROR
           ELSE IF c.configCommandReceived THEN CONFIG
           ELSE c.currentState
      [] c.currentState = CONFIG ->
           IF ~configServerActive /\ ~c.configCommandReceived THEN NORMAL
           ELSE c.currentState
      [] c.currentState = EMERGENCY ->
           IF ~c.emergencyConditions
              /\ Elapsed(currentTime, c.emergencyConditionsFalseTime)
                   >= EMERGENCY_TIMEOUT_MS
           THEN NORMAL
           ELSE c.currentState

\* variant: the entry debounce must be exceeded, not merely reached
computeNextState_StrictEntry(c, reading, currentTime, configServerActive) ==
    CASE c.currentState = ERROR ->
           IF ~c.sensorError THEN NORMAL
           ELSE IF c.configCommandReceived THEN CONFIG
           ELSE c.currentState
      [] c.currentState = NORMAL ->
           IF c.sensorError THEN ERROR
           ELSE IF c.emergencyConditions
                   /\ Elapsed(currentTime, c.emergencyConditionsTrueTime)
                        > EMERGENCY_TIMEOUT_MS
                THEN EMERGENCY
           ELSE IF c.configCommandReceived THEN CONFIG
           ELSE c.currentState
      [] c.currentState = CONFIG ->
           IF ~configServerActive /\ ~c.configCommandReceived THEN NORMAL
           ELSE c.currentState
      [] c.currentState = EMERGENCY ->
           IF ~c.emergencyConditions
              /\ Elapsed(currentTime, c.emergencyConditionsFalseTime)
                   >= EMERGENCY_TIMEOUT_MS
           THEN NORMAL
           ELSE c.currentState

\* variant: the entry test looks at the timer only, not at the tier-1 flag
computeNextState_NoFlagCheck(c, reading, currentTime, configServerActive) ==
    CASE c.currentState = ERROR ->
           IF ~c.sensorError THEN NORMAL
           ELSE IF c.configCommandReceived THEN CONFIG
           ELSE c.currentState
      [] c.currentState = NORMAL ->
           IF c.sensorError THEN ERROR
           ELSE IF Elapsed(currentTime, c.emergencyConditionsTrueTime)
                     >= EMERGENCY_TIMEOUT_MS
                THEN EMERGENCY
           ELSE IF c.configCommandReceived THEN CONFIG
           ELSE c.currentState
      [] c.currentState = CONFIG ->
           IF ~configServerActive /\ ~c.configCommandReceived THEN NORMAL
           ELSE c.currentState
      [] c.currentState = EMERGENCY ->
           IF ~c.emergencyConditions
              /\ Elapsed(currentTime, c.emergencyConditionsFalseTime)
                   >= EMERGENCY_TIMEOUT_MS
           THEN NORMAL
           ELSE c.currentState

\* variant: in NORMAL the config request comes before the emergency test
computeNextState_ConfigFirst(c, reading, currentTime, configServerActive) ==
    CASE c.currentState = ERROR ->
           IF ~c.sensorError THEN NORMAL
           ELSE IF c.configCommandReceived THEN CONFIG
           ELSE c.currentState
      [] c.currentState = NORMAL ->
           IF c.sensorError THEN ERROR
           ELSE IF c.configCommandReceived THEN CONFIG
           ELSE IF c.emergencyConditions
                   /\ Elapsed(currentTime, c.emergencyConditionsTrueTime)
                        >= EMERGENCY_TIMEOUT_MS
                THEN EMERGENCY
           ELSE c.currentState
      [] c.currentState = CONFIG ->
           IF ~configServerActive /\ ~c.configCommandReceived THEN NORMAL
           ELSE c.currentState
      [] c.currentState = EMERGENCY ->
           IF ~c.emergencyConditions
              /\ Elapsed(currentTime, c.emergencyConditionsFalseTime)
                   >= EMERGENCY_TIMEOUT_MS
           THEN NORMAL
           ELSE c.currentState

\* variant: CONFIG is left when the session is inactive or no request is pending
computeNextState_ConfigExitEither(c, reading, currentTime, configServerActive) ==
    CASE c.currentState = ERROR ->
           IF ~c.sensorError THEN NORMAL
           ELSE IF c.configCommandReceived THEN CONFIG
           ELSE c.currentState
      [] c.currentState = NORMAL ->
           IF c.sensorError THEN ERROR
           ELSE IF c.emergencyConditions
                   /\ Elapsed(currentTime, c.emergencyConditionsTrueTime)
                        >= EMERGENCY_TIMEOUT_MS
                THEN EMERGENCY
           ELSE IF c.configCommandReceived THEN CONFIG
           ELSE c.currentState
      [] c.currentState = CONFIG ->
           IF ~configServerActive \/ ~c.configCommandReceived THEN NORMAL
           ELSE c.currentState
      [] c.currentState = EMERGENCY ->
           IF ~c.emergencyConditions
              /\ Elapsed(currentTime, c.emergencyConditionsFalseTime)
                   >= EMERGENCY_TIMEOUT_MS
           THEN NORMAL
           ELSE c.currentState

\* variant: EMERGENCY is left on the first tick below the threshold
computeNextState_ExitAtOnce(c, reading, currentTime, configServerActive) ==
    CASE c.currentState = ERROR ->
           IF ~c.sensorError THEN NORMAL
           ELSE IF c.configCommandReceived THEN CONFIG
           ELSE c.currentState
      [] c.currentState = NORMAL ->
           IF c.sensorError THEN ERROR
           ELSE IF c.emergencyConditions
                   /\ Elapsed(currentTime, c.emergencyConditionsTrueTime)
                        >= EMERGENCY_TIMEOUT_MS
                THEN EMERGENCY
           ELSE IF c.configCommandReceived THEN CONFIG
           ELSE c.currentState
      [] c.currentState = CONFIG ->
           IF ~configServerActive /\ ~c.configCommandReceived THEN NORMAL
           ELSE c.currentState
      [] c.currentState = EMERGENCY ->
           IF ~c.emergencyConditions
           THEN NORMAL
           ELSE c.currentState

computeNextState(c, reading, currentTime, configServerActive) ==
    CASE c.currentState = ERROR ->
           IF ~c.sensorError THEN NORMAL
           ELSE IF c.configCommandReceived THEN CONFIG
           ELSE c.currentState
      [] c.currentState = NORMAL ->
           IF c.sensorError THEN ERROR
           ELSE IF c.emergencyConditions
                   /\ Elapsed(currentTime, c.emergencyConditionsTrueTime)
                        >= EMERGENCY_TIMEOUT_MS
                THEN EMERGENCY
           ELSE IF c.configCommandReceived THEN CONFIG
           ELSE c.currentState
      [] c.currentState = CONFIG ->
           IF ~configServerActive /\ ~c.configCommandReceived THEN NORMAL
           ELSE c.currentState
      [] c.currentState = EMERGENCY ->
           IF ~c.emergencyConditions
              /\ Elapsed(currentTime, c.emergencyConditionsFalseTime)
                   >= EMERGENCY_TIMEOUT_MS
           THEN NORMAL
           ELSE c.currentState

\* variant: the interval must be exceeded, not merely reached
shouldSendEmergencyNotification_Strict(c, currentTime) ==
    IF c.currentState # EMERGENCY THEN FALSE
    ELSE IF c.notificationsSilenced THEN FALSE
    ELSE Elapsed(currentTime, c.lastEmergencyMessageTime) > c.emergencyNotifFreq_ms

shouldSendEmergencyNotification(c, currentTime) ==
    IF c.currentState # EMERGENCY THEN FALSE
    ELSE IF c.notificationsSilenced THEN FALSE
    ELSE Elapsed(currentTime, c.lastEmergencyMessageTime) >= c.emergencyNotifFreq_ms

\* variant: the silence flag is not consulted
shouldHornBeOn_IgnoreSilence(c, currentTime) ==
    IF c.currentState # EMERGENCY THEN FALSE
    ELSE IF ~c.urgentEmergencyConditions THEN FALSE
    ELSE LET currentDuration == IF c.hornCurrentlyOn THEN c.hornOnDuration_ms
                                ELSE c.hornOffDuration_ms
         IN  IF Elapsed(currentTime, c.lastHornToggleTime) >= currentDuration
             THEN ~c.hornCurrentlyOn
             ELSE c.hornCurrentlyOn

\* variant: the phase duration must be exceeded, not merely reached
shouldHornBeOn_Strict(c, currentTime) ==
    IF c.currentState # EMERGENCY THEN FALSE
    ELSE IF ~c.urgentEmergencyConditions THEN FALSE
    ELSE IF c.notificationsSilenced THEN FALSE
    ELSE LET currentDuration == IF c.hornCurrentlyOn THEN c.hornOnDuration_ms
                                ELSE c.hornOffDuration_ms
         IN  IF Elapsed(currentTime, c.lastHornToggleTime) > currentDuration
             THEN ~c.hornCurrentlyOn
             ELSE c.hornCurrentlyOn

shouldHornBeOn(c, currentTime) ==
    IF c.currentState # EMERGENCY THEN FALSE
    ELSE IF ~c.urgentEmergencyConditions THEN FALSE
    ELSE IF c.notificationsSilenced THEN FALSE
    ELSE LET currentDuration == IF c.hornCurrentlyOn THEN c.hornOnDuration_ms
                                ELSE c.hornOffDuration_ms
         IN  IF Elapsed(currentTime, c.lastHornToggleTime) >= currentDuration
             THEN ~c.hornCurrentlyOn
             ELSE c.hornCurrentlyOn

\* variant: the silence flag survives the return to NORMAL
applyTransition_KeepSilence(c, o, nextState, currentTime) ==
    IF nextState # c.currentState
    THEN [ ctx |-> [c EXCEPT !.currentState = nextState,
                             !.lastStateChangeTime = currentTime,
                             !.configCommandReceived =
                                 IF nextState = NORMAL THEN FALSE ELSE @],
           out |-> [o EXCEPT !.stateChanged = TRUE, !.newState = nextState] ]
    ELSE [ ctx |-> c, out |-> o ]

\* variant: the config request is cleared on entering CONFIG as well
applyTransition_ClearOnConfig(c, o, nextState, currentTime) ==
    IF nextState # c.currentState
    THEN [ ctx |-> [c EXCEPT !.currentState = nextState,
                             !.lastStateChangeTime = currentTime,
                             !.notificationsSilenced =
                                 IF nextState = NORMAL THEN FALSE ELSE @,
                             !.configCommandReceived =
                                 IF nextState \in {NORMAL, CONFIG} THEN FALSE ELSE @],
           out |-> [o EXCEPT !.stateChanged = TRUE, !.newState = nextState] ]
    ELSE [ ctx |-> c, out |-> o ]

\* variant: the config request survives the entry into NORMAL
applyTransition_KeepConfig(c, o, nextState, currentTime) ==
    IF nextState # c.currentState
    THEN [ ctx |-> [c EXCEPT !.currentState = nextState,
                             !.lastStateChangeTime = currentTime,
                             !.notificationsSilenced =
                                 IF nextState = NORMAL THEN FALSE ELSE @],
           out |-> [o EXCEPT !.stateChanged = TRUE, !.newState = nextState] ]
    ELSE [ ctx |-> c, out |-> o ]

\* lines 238-254 of updateStateMachine: commit the transition, entry actions
applyTransition(c, o, nextState, currentTime) ==
    IF nextState # c.currentState
    THEN [ ctx |-> [c EXCEPT !.currentState = nextState,
                             !.lastStateChangeTime = currentTime,
                             !.notificationsSilenced =
                                 IF nextState = NORMAL THEN FALSE ELSE @,
                             !.configCommandReceived =
                                 IF nextState = NORMAL THEN FALSE ELSE @],
           out |-> [o EXCEPT !.stateChanged = TRUE, !.newState = nextState] ]
    ELSE [ ctx |-> c, out |-> o ]

\* variant: every alert uses the standard phrasing
emergencyNotificationStep_AlwaysStandard(c, o, reading, currentTime) ==
    IF shouldSendEmergencyNotification(c, currentTime)
    THEN [ ctx |-> [c EXCEPT !.lastEmergencyMessageTime = currentTime],
           out |-> [o EXCEPT !.sendEmergencyNotification = TRUE,
                             !.message = <<MsgStandard, reading.level_cm>>] ]
    ELSE [ ctx |-> c, out |-> o ]

\* variant: an alert does not restart the notification interval
emergencyNotificationStep_NoStamp(c, o, reading, currentTime) ==
    IF shouldSendEmergencyNotification(c, currentTime)
    THEN [ ctx |-> c,
           out |-> [o EXCEPT !.sendEmergencyNotification = TRUE,
                             !.message =
                                 IF c.urgentEmergencyConditions
                                 THEN <<MsgUrgent, reading.level_cm>>
                                 ELSE <<MsgStandard, reading.level_cm>>] ]
    ELSE [ ctx |-> c, out |-> o ]

\* lines 257-273 of updateStateMachine: the notification throttler
emergencyNotificationStep(c, o, reading, currentTime) ==
    IF shouldSendEmergencyNotification(c, currentTime)
    THEN [ ctx |-> [c EXCEPT !.lastEmergencyMessageTime = currentTime],
           out |-> [o EXCEPT !.sendEmergencyNotification = TRUE,
                             !.message =
                                 IF c.urgentEmergencyConditions
                                 THEN <<MsgUrgent, reading.level_cm>>
                                 ELSE <<MsgStandard, reading.level_cm>>] ]
    ELSE [ ctx |-> c, out |-> o ]

\* variant: the horn timer keeps running while the horn is held off
hornStep_TimerRuns(c, o, currentTime) ==
    IF c.currentState = EMERGENCY
    THEN LET newHornState == shouldHornBeOn(c, currentTime)
         IN  IF newHornState # c.hornCurrentlyOn
             THEN [ ctx |-> [c EXCEPT !.hornCurrentlyOn = newHornState,
                                      !.lastHornToggleTime = currentTime],
                    out |-> [o EXCEPT !.setHornState = TRUE,
                                      !.hornOn = newHornState] ]
             ELSE IF c.notificationsSilenced
             THEN [ ctx |-> [c EXCEPT !.lastHornToggleTime = currentTime],
                    out |-> o ]
             ELSE [ ctx |-> c, out |-> o ]
    ELSE IF c.hornCurrentlyOn
         THEN [ ctx |-> [c EXCEPT !.hornCurrentlyOn = FALSE],
                out |-> [o EXCEPT !.setHornState = TRUE, !.hornOn = FALSE] ]
         ELSE [ ctx |-> c, out |-> o ]

\* variant: the horn is switched on by a command, and off without one
hornStep_NoOffCommand(c, o, currentTime) ==
    IF c.currentState = EMERGENCY
    THEN LET newHornState == shouldHornBeOn(c, currentTime)
         IN  IF newHornState # c.hornCurrentlyOn
             THEN [ ctx |-> [c EXCEPT !.hornCurrentlyOn = newHornState,
                                      !.lastHornToggleTime = currentTime],
                    out |-> IF newHornState
                            THEN [o EXCEPT !.setHornState = TRUE,
                                           !.hornOn = TRUE]
                            ELSE o ]
             ELSE [ ctx |-> c, out |-> o ]
    ELSE [ ctx |-> [c EXCEPT !.hornCurrentlyOn = FALSE], out |-> o ]

\* lines 275-290 of updateStateMachine: horn pulsing, horn off outside EMERGENCY
hornStep(c, o, currentTime) ==
    IF c.currentState = EMERGENCY
    THEN LET newHornState == shouldHornBeOn(c, currentTime)
         IN  IF newHornState # c.hornCurrentlyOn
             THEN [ ctx |-> [c EXCEPT !.hornCurrentlyOn = newHornState,
                                      !.lastHornToggleTime = currentTime],
                    out |-> [o EXCEPT !.setHornState = TRUE,
                                      !.hornOn = newHornState] ]
             ELSE [ ctx |-> c, out |-> o ]
    ELSE IF c.hornCurrentlyOn
         THEN [ ctx |-> [c EXCEPT !.hornCurrentlyOn = FALSE],
                out |-> [o EXCEPT !.setHornState = TRUE, !.hornOn = FALSE] ]
         ELSE [ ctx |-> c, out |-> o ]

updateStateMachine(c, reading, currentTime, configServerActive) ==
    LET c0 == [c EXCEPT !.sensorError = ~reading.valid]
        c1 == updateEmergencyConditions(c0, reading, currentTime)
        nextState == computeNextState(c1, reading, currentTime, configServerActive)
        r2 == applyTransition(c1, StateMachineOutput, nextState, currentTime)
        r3 == IF r2.ctx.currentState = EMERGENCY
              THEN emergencyNotificationStep(r2.ctx, r2.out, reading, currentTime)
              ELSE r2
    IN  hornStep(r3.ctx, r3.out, currentTime)

\* variant: the toggle is not restricted to EMERGENCY
handleSilenceToggle_NoGuard(c) ==
    LET c1 == [c EXCEPT !.notificationsSilenced = ~@]
    IN  IF c1.notificationsSilenced
        THEN [ ctx |-> [c1 EXCEPT !.hornCurrentlyOn = FALSE],
               out |-> [StateMachineOutput EXCEPT
                           !.sendSilenceConfirmation = TRUE,
                           !.message = <<MsgSilenced>>,
                           !.setHornState = c1.hornCurrentlyOn,
                           !.hornOn = FALSE] ]
        ELSE [ ctx |-> c1,
               out |-> [StateMachineOutput EXCEPT
                           !.sendUnsilenceConfirmation = TRUE,
                           !.message = <<MsgReenabled>>] ]

\* variant: unsilencing restarts the notification interval
handleSilenceToggle_ResetThrottle(c) ==
    IF c.currentState # EMERGENCY
    THEN [ ctx |-> c, out |-> StateMachineOutput ]
    ELSE LET c1 == [c EXCEPT !.notificationsSilenced = ~@]
         IN  IF c1.notificationsSilenced
             THEN [ ctx |-> [c1 EXCEPT !.hornCurrentlyOn = FALSE],
                    out |-> [StateMachineOutput EXCEPT
                                !.sendSilenceConfirmation = TRUE,
                                !.message = <<MsgSilenced>>,
                                !.setHornState = c1.hornCurrentlyOn,
                                !.hornOn = FALSE] ]
             ELSE [ ctx |-> [c1 EXCEPT !.lastEmergencyMessageTime =
                                           c.lastStateChangeTime],
                    out |-> [StateMachineOutput EXCEPT
                                !.sendUnsilenceConfirmation = TRUE,
                                !.message = <<MsgReenabled>>] ]

handleSilenceToggle(c) ==
    IF c.currentState # EMERGENCY
    THEN [ ctx |-> c, out |-> StateMachineOutput ]
    ELSE LET c1 == [c EXCEPT !.notificationsSilenced = ~@]
         IN  IF c1.notificationsSilenced
             THEN [ ctx |-> [c1 EXCEPT !.hornCurrentlyOn = FALSE],
                    out |-> [StateMachineOutput EXCEPT
                                !.sendSilenceConfirmation = TRUE,
                                !.message = <<MsgSilenced>>,
                                !.setHornState = c1.hornCurrentlyOn,
                                !.hornOn = FALSE] ]
             ELSE [ ctx |-> c1,
                    out |-> [StateMachineOutput EXCEPT
                                !.sendUnsilenceConfirmation = TRUE,
                                !.message = <<MsgReenabled>>] ]

\* ------------------------------------------------------------------------
\* src/main.cpp: the button interrupt handler and loop(), which carries its
\* own copy of the state machine.  systemState has the fields of the
\* StateMachineContext; the thresholds and durations are read from the
\* ConfigServer and are kept in the same record.
\* ------------------------------------------------------------------------
LOW == "LOW"
HIGH == "HIGH"

PATTERN_OFF == "PATTERN_OFF"
PATTERN_SOLID == "PATTERN_SOLID"
PATTERN_SLOW_BLINK == "PATTERN_SLOW_BLINK"
PATTERN_FAST_BLINK == "PATTERN_FAST_BLINK"

\* ConfigServer.h
SERVER_TIMEOUT_MS == 240000
MIN_EMERGENCY_NOTIF_FREQ_MS == 5000

MsgUrgentLoop == "Boat Monitor URGENT Alert: Critical Level - HORN ACTIVATED!"

\* variant: the ERROR state shows the pattern of EMERGENCY
ledPatternOf_ErrorSolid(state) ==
    CASE state = NORMAL    -> PATTERN_OFF
      [] state = CONFIG    -> PATTERN_SLOW_BLINK
      [] state = ERROR     -> PATTERN_SOLID
      [] state = EMERGENCY -> PATTERN_SOLID

\* the LED pattern loop() and setup() select for a state
ledPatternOf(state) ==
    CASE state = NORMAL    -> PATTERN_OFF
      [] state = CONFIG    -> PATTERN_SLOW_BLINK
      [] state = ERROR     -> PATTERN_FAST_BLINK
      [] state = EMERGENCY -> PATTERN_SOLID

\* the globals of main.cpp, the statics of loop() and the peripherals after
\* setup() has booted the device in bootState.  The fields from toggled on
\* are a record of the past kept for the properties: whether the last loop()
\* iteration flipped the silence flag, the state the device was in when the
\* current press was accepted, the state in which the pending config request
\* was made ("none" without one), and for the current or last accepted press
\* the number of flips made during it, whether the device was in EMERGENCY
\* from the press on, whether the last interrupt ended it, what the
\* transports returned for the last message sent, and whether the last
\* iteration left the same device state for either return value.
\* the position of loop() inside its hold detection (lines 179-211) and what
\* it has read there: pc is the statement to run next, seenClock and
\* seenStamp are the values of millis() and of buttonPressStartTime read for
\* the subtraction of line 190 (haveClock, haveStamp: already read),
\* flagStamp is the press start that belonged to the buttonCurrentlyPressed
\* read by line 189, and downSince is the time at which the pin last went
\* low.  Used where loop() is taken statement by statement.
NoRace ==
    [ pc |-> "idle", seenClock |-> 0, seenStamp |-> 0,
      haveClock |-> FALSE, haveStamp |-> FALSE,
      flagStamp |-> 0, downSince |-> 0 ]

setupBoard(bootState) ==
    [ race                   |-> NoRace,
      pin                    |-> HIGH,
      buttonCurrentlyPressed |-> FALSE,
      buttonPressStartTime   |-> 0,
      lastButtonPress        |-> 0,
      silenceToggleHandled   |-> FALSE,
      lastButtonState        |-> FALSE,
      setupModeActive        |-> FALSE,
      serverStartTime        |-> 0,
      ledPattern             |-> ledPatternOf(bootState),
      alertPin               |-> LOW,
      toggled                |-> FALSE,
      pressState             |-> bootState,
      requestFrom            |-> "none",
      holdFlips              |-> 0,
      holdInEmergency        |-> FALSE,
      holdEnded              |-> FALSE,
      delivered              |-> TRUE,
      deliveryBlind          |-> TRUE ]

\* handleButtonPress(): the interrupt handler, run at time t with the pin
\* reading currentPinState
handleButtonPress(s, b, t, currentPinState) ==
    IF currentPinState = LOW /\ ~b.buttonCurrentlyPressed
    THEN IF Elapsed(t, b.lastButtonPress) <= 50
         THEN [ sys |-> s, board |-> b ]
         ELSE [ sys |-> s,
                board |-> [b EXCEPT !.buttonPressStartTime = t,
                                    !.buttonCurrentlyPressed = TRUE,
                                    !.lastButtonPress = t] ]
    ELSE IF currentPinState = HIGH /\ b.buttonCurrentlyPressed
    THEN LET holdDuration == Elapsed(t, b.buttonPressStartTime)
         IN  [ sys |-> [s EXCEPT !.configCommandReceived =
                                     IF holdDuration < 5000 THEN TRUE ELSE @],
               board |-> [b EXCEPT !.buttonCurrentlyPressed = FALSE] ]
    ELSE [ sys |-> s, board |-> b ]

\* loop() lines 179-211: the one-shot silence toggle on a 5 s hold.
\* delivered is what sms.send and discord.send return: the code only logs it.
loopSilenceToggle(s, b, o, t, delivered) ==
    LET handled == IF b.lastButtonState /\ ~b.buttonCurrentlyPressed
                   THEN FALSE ELSE b.silenceToggleHandled
        b1 == [b EXCEPT !.silenceToggleHandled = handled,
                        !.lastButtonState = b.buttonCurrentlyPressed]
    IN  IF /\ b.buttonCurrentlyPressed
           /\ s.currentState = EMERGENCY
           /\ Elapsed(t, b.buttonPressStartTime) >= 5000
           /\ ~handled
        THEN LET s1 == [s EXCEPT !.notificationsSilenced = ~@]
             IN  [ sys |-> s1,
                   board |-> [b1 EXCEPT !.silenceToggleHandled = TRUE],
                   out |-> IF s1.notificationsSilenced
                           THEN [o EXCEPT !.sendSilenceConfirmation = TRUE,
                                          !.message = <<MsgSilenced>>]
                           ELSE o ]
        ELSE [ sys |-> s, board |-> b1, out |-> o ]

\* loop() lines 213-249: the two tiers, as in updateEmergencyConditions
loopEmergencyConditions(s, reading, t) ==
    [s EXCEPT
        !.emergencyConditions = reading.level_cm >= s.emergencyWaterLevel_cm,
        !.emergencyConditionsTrueTime =
            IF reading.level_cm >= s.emergencyWaterLevel_cm
               /\ ~s.emergencyConditions THEN t ELSE @,
        !.emergencyConditionsFalseTime =
            IF reading.level_cm < s.emergencyWaterLevel_cm
               /\ s.emergencyConditions THEN t ELSE @,
        !.urgentEmergencyConditions =
            reading.level_cm >= s.urgentEmergencyWaterLevel_cm]

\* loop() lines 255-268: case ERROR
loopCaseError(s, b, o, t) ==
    IF ~s.sensorError
    THEN [ sys |-> [s EXCEPT !.currentState = NORMAL,
                             !.lastStateChangeTime = t],
           board |-> b, out |-> o ]
    ELSE IF s.configCommandReceived
    THEN [ sys |-> [s EXCEPT !.currentState = CONFIG,
                             !.lastStateChangeTime = t],
           board |-> b, out |-> o ]
    ELSE [ sys |-> s, board |-> b, out |-> o ]

\* loop() lines 269-291: case NORMAL
loopCaseNormal(s, b, o, t) ==
    IF s.sensorError
    THEN [ sys |-> [s EXCEPT !.currentState = ERROR,
                             !.lastStateChangeTime = t],
           board |-> b, out |-> o ]
    ELSE IF s.emergencyConditions
            /\ Elapsed(t, s.emergencyConditionsTrueTime) >= EMERGENCY_TIMEOUT_MS
    THEN [ sys |-> [s EXCEPT !.currentState = EMERGENCY,
                             !.lastStateChangeTime = t],
           board |-> b, out |-> o ]
    ELSE IF s.configCommandReceived
    THEN [ sys |-> [s EXCEPT !.currentState = CONFIG,
                             !.lastStateChangeTime = t],
           board |-> b, out |-> o ]
    ELSE [ sys |-> s, board |-> b, out |-> o ]

\* loop() lines 292-309: case CONFIG.  startSetupMode() opens the session;
\* handleClient() closes it once SERVER_TIMEOUT_MS have passed.
loopCaseConfig(s, b, o, t) ==
    IF ~b.setupModeActive
    THEN [ sys |-> s,
           board |-> [b EXCEPT !.setupModeActive = TRUE,
                               !.serverStartTime = t],
           out |-> o ]
    ELSE IF Elapsed(t, b.serverStartTime) >= SERVER_TIMEOUT_MS
    THEN [ sys |-> [s EXCEPT !.currentState = NORMAL,
                             !.configCommandReceived = FALSE,
                             !.lastStateChangeTime = t],
           board |-> [b EXCEPT !.setupModeActive = FALSE],
           out |-> o ]
    ELSE [ sys |-> s, board |-> b, out |-> o ]

\* variant: a failed delivery leaves the throttle timestamp alone, so that
\* the alert is sent again on the next iteration
loopEmergencyNotification_RetryOnFailure(s, o, reading, t, delivered) ==
    IF Elapsed(t, s.lastEmergencyMessageTime) >= s.emergencyNotifFreq_ms
    THEN [ sys |-> [s EXCEPT !.lastEmergencyMessageTime =
                                 IF s.notificationsSilenced \/ delivered
                                 THEN t ELSE @],
           out |-> IF ~s.notificationsSilenced
                   THEN [o EXCEPT !.sendEmergencyNotification = TRUE,
                                  !.message =
                                      IF s.urgentEmergencyConditions
                                      THEN <<MsgUrgentLoop, reading.level_cm>>
                                      ELSE <<MsgStandard, reading.level_cm>>]
                   ELSE o ]
    ELSE [ sys |-> s, out |-> o ]

\* loop() lines 329-387: the notification throttler of case EMERGENCY.
\* delivered is what sms.send and discord.send return: the code only logs it.
loopEmergencyNotification(s, o, reading, t, delivered) ==
    IF Elapsed(t, s.lastEmergencyMessageTime) >= s.emergencyNotifFreq_ms
    THEN [ sys |-> [s EXCEPT !.lastEmergencyMessageTime = t],
           out |-> IF ~s.notificationsSilenced
                   THEN [o EXCEPT !.sendEmergencyNotification = TRUE,
                                  !.message =
                                      IF s.urgentEmergencyConditions
                                      THEN <<MsgUrgentLoop, reading.level_cm>>
                                      ELSE <<MsgStandard, reading.level_cm>>]
                   ELSE o ]
    ELSE [ sys |-> s, out |-> o ]

\* loop() lines 389-412: horn pulsing of case EMERGENCY
loopHorn(s, b, o, t) ==
    IF s.urgentEmergencyConditions /\ ~s.notificationsSilenced
    THEN LET currentDuration == IF s.hornCurrentlyOn
                                THEN s.hornOnDuration_ms
                                ELSE s.hornOffDuration_ms
         IN  IF Elapsed(t, s.lastHornToggleTime) >= currentDuration
             THEN [ sys |-> [s EXCEPT !.hornCurrentlyOn = ~@,
                                      !.lastHornToggleTime = t],
                    board |-> [b EXCEPT !.alertPin =
                                  IF s.hornCurrentlyOn THEN LOW ELSE HIGH],
                    out |-> [o EXCEPT !.setHornState = TRUE,
                                      !.hornOn = ~s.hornCurrentlyOn] ]
             ELSE [ sys |-> s, board |-> b, out |-> o ]
    ELSE IF s.hornCurrentlyOn
    THEN [ sys |-> [s EXCEPT !.hornCurrentlyOn = FALSE],
           board |-> [b EXCEPT !.alertPin = LOW],
           out |-> [o EXCEPT !.setHornState = TRUE, !.hornOn = FALSE] ]
    ELSE [ sys |-> s, board |-> b, out |-> o ]

\* loop() lines 310-414: case EMERGENCY
loopCaseEmergency(s, b, o, reading, t, delivered) ==
    IF ~s.emergencyConditions
       /\ Elapsed(t, s.emergencyConditionsFalseTime) >= EMERGENCY_TIMEOUT_MS
    THEN [ sys |-> [s EXCEPT !.currentState = NORMAL,
                             !.lastStateChangeTime = t,
                             !.hornCurrentlyOn = FALSE,
                             !.notificationsSilenced = FALSE],
           board |-> [b EXCEPT !.alertPin = LOW],
           out |-> [o EXCEPT !.setHornState = TRUE, !.hornOn = FALSE] ]
    ELSE LET n == loopEmergencyNotification(s, o, reading, t, delivered)
         IN  loopHorn(n.sys, b, n.out, t)

\* loop() lines 254-415: the switch on the state the iteration started in
loopStateSwitch(s, b, o, reading, t, delivered) ==
    CASE s.currentState = ERROR     -> loopCaseError(s, b, o, t)
      [] s.currentState = NORMAL    -> loopCaseNormal(s, b, o, t)
      [] s.currentState = CONFIG    -> loopCaseConfig(s, b, o, t)
      [] s.currentState = EMERGENCY -> loopCaseEmergency(s, b, o, reading, t,
                                                        delivered)

\* loop(): one iteration at time t with the sensor returning reading and the
\* transports returning delivered
loop(s, b, reading, t, delivered) ==
    LET previousState == s.currentState
        s0 == [s EXCEPT !.sensorError = ~reading.valid]
        r1 == loopSilenceToggle(s0, b, StateMachineOutput, t, delivered)
        s2 == loopEmergencyConditions(r1.sys, reading, t)
        r3 == loopStateSwitch(s2, r1.board, r1.out, reading, t, delivered)
        changed == r3.sys.currentState # previousState
    IN  [ sys |-> r3.sys,
          board |-> [r3.board EXCEPT
                        !.ledPattern = IF changed
                                       THEN ledPatternOf(r3.sys.currentState)
                                       ELSE @,
                        !.toggled = r1.sys.notificationsSilenced
                                        # s.notificationsSilenced],
          out |-> [r3.out EXCEPT !.stateChanged = changed,
                                 !.newState = IF changed
                                              THEN r3.sys.currentState
                                              ELSE @] ]

\* ------------------------------------------------------------------------
\* src/ConfigServer.cpp: the two emergency thresholds, their request handlers
\* and their copy in NVS.  A key that was never written reads as its default
\* of -1.
\* ------------------------------------------------------------------------
DEFAULT_EMERGENCY_WATER_LEVEL_CM == 30
DEFAULT_URGENT_EMERGENCY_WATER_LEVEL_CM == 50
MIN_EMERGENCY_WATER_LEVEL_CM == 5
MAX_EMERGENCY_WATER_LEVEL_CM == 100

\* a request without level_cm argument: server->hasArg("level_cm") is false
NoArg == [has |-> FALSE, level_cm |-> 0]

EmptyNvs == [level_cm |-> -1, urgent_level_cm |-> -1]

\* loadEmergencySettings(): defaults, overwritten key by key from NVS when
\* the namespace opens
loadEmergencySettings(nvs, beginOk) ==
    IF ~beginOk
    THEN [ emergencyWaterLevel_cm       |-> DEFAULT_EMERGENCY_WATER_LEVEL_CM,
           urgentEmergencyWaterLevel_cm |-> DEFAULT_URGENT_EMERGENCY_WATER_LEVEL_CM ]
    ELSE [ emergencyWaterLevel_cm       |->
               IF nvs.level_cm >= 0 THEN nvs.level_cm
               ELSE DEFAULT_EMERGENCY_WATER_LEVEL_CM,
           urgentEmergencyWaterLevel_cm |->
               IF nvs.urgent_level_cm >= 0 THEN nvs.urgent_level_cm
               ELSE DEFAULT_URGENT_EMERGENCY_WATER_LEVEL_CM ]

\* saveEmergencySettings(): writes both thresholds unless the namespace
\* fails to open
saveEmergencySettings(c, beginOk) ==
    IF ~beginOk THEN c
    ELSE [c EXCEPT !.nvs = [level_cm        |-> c.emergencyWaterLevel_cm,
                            urgent_level_cm |-> c.urgentEmergencyWaterLevel_cm]]

\* variant: tier 1 is checked against the range only
handleSetEmergencyLevel_RangeOnly(c, arg, beginOk) ==
    IF ~arg.has THEN [c EXCEPT !.status = 400]
    ELSE IF \/ arg.level_cm < MIN_EMERGENCY_WATER_LEVEL_CM
            \/ arg.level_cm > MAX_EMERGENCY_WATER_LEVEL_CM
    THEN [c EXCEPT !.status = 400]
    ELSE saveEmergencySettings([c EXCEPT !.emergencyWaterLevel_cm = arg.level_cm,
                                         !.status = 200], beginOk)

\* handleSetEmergencyLevel(): the request with argument level_cm = arg
handleSetEmergencyLevel(c, arg, beginOk) ==
    IF ~arg.has THEN [c EXCEPT !.status = 400]
    ELSE IF \/ arg.level_cm < MIN_EMERGENCY_WATER_LEVEL_CM
            \/ arg.level_cm > MAX_EMERGENCY_WATER_LEVEL_CM
    THEN [c EXCEPT !.status = 400]
    ELSE IF arg.level_cm >= c.urgentEmergencyWaterLevel_cm
    THEN [c EXCEPT !.status = 400]
    ELSE saveEmergencySettings([c EXCEPT !.emergencyWaterLevel_cm = arg.level_cm,
                                         !.status = 200], beginOk)

\* handleSetUrgentEmergencyLevel(): the request with argument level_cm = arg
handleSetUrgentEmergencyLevel(c, arg, beginOk) ==
    IF ~arg.has THEN [c EXCEPT !.status = 400]
    ELSE IF \/ arg.level_cm < MIN_EMERGENCY_WATER_LEVEL_CM
            \/ arg.level_cm > MAX_EMERGENCY_WATER_LEVEL_CM
    THEN [c EXCEPT !.status = 400]
    ELSE IF arg.level_cm <= c.emergencyWaterLevel_cm
    THEN [c EXCEPT !.status = 400]
    ELSE saveEmergencySettings([c EXCEPT !.urgentEmergencyWaterLevel_cm = arg.level_cm,
                                         !.status = 200], beginOk)

\* ConfigServer(): the settings after construction on a device whose NVS
\* holds nothing; op, arg and before record the last request and the
\* thresholds it found
ConfigServer ==
    [ emergencyWaterLevel_cm       |-> DEFAULT_EMERGENCY_WATER_LEVEL_CM,
      urgentEmergencyWaterLevel_cm |-> DEFAULT_URGENT_EMERGENCY_WATER_LEVEL_CM,
      nvs    |-> EmptyNvs,
      status |-> 0,
      op     |-> "construct",
      arg    |-> NoArg,
      before |-> [ emergencyWaterLevel_cm       |-> DEFAULT_EMERGENCY_WATER_LEVEL_CM,
                   urgentEmergencyWaterLevel_cm |-> DEFAULT_URGENT_EMERGENCY_WATER_LEVEL_CM ] ]

\* ------------------------------------------------------------------------
\* State of the model
\* ------------------------------------------------------------------------
VARIABLES
    ctx,      \* the StateMachineContext
    now,      \* the millisecond clock at the last update
    pre,      \* the context at the start of the last call
    call,     \* the last call and its arguments
    output,   \* the StateMachineOutput of the last call
    run,      \* the current run of readings at or above the tier-1 threshold
    rep,      \* whether the last update repeated the arguments of the one before
    hist,     \* what has happened since boot / since CONFIG was entered
    board,    \* main.cpp: button, interrupt and loop() statics, peripherals
    conf      \* ConfigServer: the emergency settings and their NVS copy

vars == <<ctx, now, pre, call, output, run, rep, hist, board, conf>>

NoReading == [valid |-> TRUE, level_cm |-> 10]

NoRun == [active |-> FALSE, t0 |-> 0, clean |-> FALSE]

NoRep == [same |-> FALSE, firstChanged |-> FALSE]

\* everHigh: some reading since boot was at or above the tier-1 threshold;
\* viaRequest: the device is in CONFIG and got there by an update that took
\* NORMAL->CONFIG or ERROR->CONFIG;
\* flipTime, prevFlipTime: the times of the last two transitions between
\* NORMAL and EMERGENCY, -1 for none;
\* unsilenced: a toggle lifted the silence and no update or toggle followed;
\* afterUnsilence: the last update was the first one after such a toggle;
\* hornLine: the level of the horn line of a sink that applies every horn
\* command of the outputs;
\* lastAlert, prevAlert: the times of the last two emergency alerts, -1 for
\* none;
\* quietEntry: the last call was an update that entered EMERGENCY without an
\* alert; afterQuietEntry: the last update was the first one after such an
\* entry, with no toggle in between;
\* trueNow: the time since boot without the wrap of the clock; at: the times
\* since boot at which the four timestamps of the context were last written
\* (0: never); before: at as it was at the start of the last update.  These
\* three are kept by the specification of the wrapping clock only;
\* twin: the context of the standalone state machine fed with the ticks and
\* button events that loop() and the interrupt handler have seen; agree:
\* after every iteration so far the two have shown the same state, horn
\* level, emissions, throttle timestamp and config request.  The twin is
\* followed until the first disagreement and is kept by the specification
\* of the device as built only.
NoStamps == [emergencyConditionsTrueTime  |-> 0,
             emergencyConditionsFalseTime |-> 0,
             lastEmergencyMessageTime     |-> 0,
             lastHornToggleTime           |-> 0]

NoHist == [everHigh |-> FALSE, viaRequest |-> FALSE,
           flipTime |-> -1, prevFlipTime |-> -1,
           unsilenced |-> FALSE, afterUnsilence |-> FALSE,
           hornLine |-> FALSE,
           lastAlert |-> -1, prevAlert |-> -1,
           quietEntry |-> FALSE, afterQuietEntry |-> FALSE,
           trueNow |-> 0, at |-> NoStamps, before |-> NoStamps,
           twin |-> StateMachineContext, agree |-> TRUE]

\* the states the device boots in (main.cpp setup(): CONFIG without stored
\* WiFi credentials, NORMAL otherwise)
BootStates == {NORMAL, CONFIG}

Init ==
    /\ \E s \in BootStates : ctx = [StateMachineContext EXCEPT !.currentState = s]
    /\ now = 0
    /\ pre = ctx
    /\ call = [op |-> "boot", reading |-> NoReading, currentTime |-> 0,
               configServerActive |-> FALSE]
    /\ output = StateMachineOutput
    /\ run = NoRun
    /\ rep = NoRep
    /\ hist = NoHist
    /\ board = setupBoard(ctx.currentState)
    /\ conf = ConfigServer

\* the run of tier-1 readings as seen from the inputs alone
NextRun(reading, currentTime, stateAfter) ==
    IF reading.level_cm >= ctx.emergencyWaterLevel_cm
    THEN IF run.active
         THEN [run EXCEPT !.clean = @ /\ reading.valid]
         ELSE [active |-> TRUE, t0 |-> currentTime,
               clean |-> reading.valid /\ stateAfter = NORMAL]
    ELSE NoRun

\* the history after an update that took the context to after
NextHist(reading, after) ==
    [hist EXCEPT
       !.everHigh   = @ \/ reading.level_cm >= ctx.emergencyWaterLevel_cm,
       !.viaRequest = IF after.currentState # CONFIG THEN FALSE
                      ELSE IF ctx.currentState \in {NORMAL, ERROR} THEN TRUE
                      ELSE @]

\* the history of transitions and toggles after an update at currentTime
NextPast(h, after, currentTime) ==
    LET flipped == /\ after.currentState # ctx.currentState
                   /\ {ctx.currentState, after.currentState} = {NORMAL, EMERGENCY}
    IN  [h EXCEPT !.flipTime = IF flipped THEN currentTime ELSE @,
                  !.prevFlipTime = IF flipped THEN h.flipTime ELSE @,
                  !.unsilenced = FALSE,
                  !.afterUnsilence = h.unsilenced]

\* the history after the sink has applied the commands of the output out
NextSink(h, out) ==
    [h EXCEPT !.hornLine = IF out.setHornState THEN out.hornOn ELSE @]

\* the history of alerts after an update at currentTime that took the
\* context to after and returned out
NextAlerts(h, after, out, currentTime) ==
    [h EXCEPT !.lastAlert = IF out.sendEmergencyNotification
                            THEN currentTime ELSE @,
              !.prevAlert = IF out.sendEmergencyNotification
                            THEN h.lastAlert ELSE @,
              !.quietEntry = /\ ctx.currentState # EMERGENCY
                             /\ after.currentState = EMERGENCY
                             /\ ~out.sendEmergencyNotification,
              !.afterQuietEntry = h.quietEntry]

\* one polling tick: updateStateMachine(ctx, reading, currentTime, active)
Update ==
    \E d \in Steps, reading \in StateMachineSensorReading,
       configServerActive \in BOOLEAN :
        LET currentTime == (now + d) % ClockModulus
            r == updateStateMachine(ctx, reading, currentTime, configServerActive)
            thisCall == [op |-> "update", reading |-> reading,
                         currentTime |-> currentTime,
                         configServerActive |-> configServerActive]
        IN  /\ now + d <= MaxTime
            /\ now' = currentTime
            /\ pre' = ctx
            /\ ctx' = r.ctx
            /\ output' = r.out
            /\ call' = thisCall
            /\ run' = NextRun(reading, currentTime, r.ctx.currentState)
            /\ rep' = NoRep
            /\ hist' = NextAlerts(NextSink(NextPast(NextHist(reading, r.ctx),
                                                    r.ctx, currentTime), r.out),
                                  r.ctx, r.out, currentTime)
            /\ UNCHANGED <<board, conf>>

\* updateStateMachine called again with the arguments of the update before
\* it (same reading, same time, same session flag), nothing in between
UpdateAgain ==
    LET r == updateStateMachine(ctx, call.reading, call.currentTime,
                                call.configServerActive)
    IN  /\ call.op = "update"
        /\ pre' = ctx
        /\ ctx' = r.ctx
        /\ output' = r.out
        /\ run' = NextRun(call.reading, call.currentTime, r.ctx.currentState)
        /\ rep' = [same |-> TRUE, firstChanged |-> output.stateChanged]
        /\ hist' = NextAlerts(NextSink(NextPast(NextHist(call.reading, r.ctx),
                                                r.ctx, call.currentTime), r.out),
                              r.ctx, r.out, call.currentTime)
        /\ UNCHANGED <<now, call, board, conf>>

\* a qualifying button hold: handleSilenceToggle(ctx)
SilenceToggle ==
    LET r == handleSilenceToggle(ctx)
    IN  /\ pre' = ctx
        /\ ctx' = r.ctx
        /\ output' = r.out
        /\ call' = [call EXCEPT !.op = "toggle"]
        /\ rep' = NoRep
        /\ hist' = NextSink([hist EXCEPT
                                !.unsilenced = /\ ctx.notificationsSilenced
                                               /\ ~r.ctx.notificationsSilenced,
                                !.afterUnsilence = FALSE,
                                !.quietEntry = FALSE,
                                !.afterQuietEntry = FALSE], r.out)
        /\ UNCHANGED <<now, run, board, conf>>

\* release of a short press: the interrupt handler raises the config request
ButtonShortPress ==
    /\ pre' = ctx
    /\ ctx' = [ctx EXCEPT !.configCommandReceived = TRUE]
    /\ output' = StateMachineOutput
    /\ call' = [call EXCEPT !.op = "button"]
    /\ run' = [run EXCEPT !.clean = FALSE]
    /\ rep' = NoRep
    /\ UNCHANGED <<now, hist, board, conf>>

Next == Update \/ UpdateAgain \/ SilenceToggle \/ ButtonShortPress

Spec == Init /\ [][Next]_vars

\* ------------------------------------------------------------------------
\* The polling loop running for ever: the clock wraps, and the ticks are
\* sampled half a clock period apart so that it takes two values.  The
\* records of the last call's start context, of the tier-1 run and of
\* repeated calls are not kept here.
\* ------------------------------------------------------------------------
LiveSteps == {ClockModulus \div 2}

UpdateLive ==
    \E d \in LiveSteps, reading \in StateMachineSensorReading,
       configServerActive \in BOOLEAN :
        LET currentTime == (now + d) % ClockModulus
            r == updateStateMachine(ctx, reading, currentTime, configServerActive)
        IN  /\ now' = currentTime
            /\ ctx' = r.ctx
            /\ output' = r.out
            /\ call' = [op |-> "update", reading |-> reading,
                        currentTime |-> currentTime,
                        configServerActive |-> configServerActive]
            /\ hist' = NextHist(reading, r.ctx)
            /\ UNCHANGED <<pre, run, rep, board, conf>>

SilenceToggleLive ==
    LET r == handleSilenceToggle(ctx)
    IN  /\ ctx' = r.ctx
        /\ output' = r.out
        /\ call' = [call EXCEPT !.op = "toggle"]
        /\ UNCHANGED <<now, pre, run, rep, hist, board, conf>>

ButtonShortPressLive ==
    /\ ctx' = [ctx EXCEPT !.configCommandReceived = TRUE]
    /\ output' = StateMachineOutput
    /\ call' = [call EXCEPT !.op = "button"]
    /\ UNCHANGED <<now, pre, run, rep, hist, board, conf>>

NextLive == UpdateLive \/ SilenceToggleLive \/ ButtonShortPressLive

\* loop() is called again and again: the polling tick is never starved
SpecLive == Init /\ [][NextLive]_vars /\ WF_vars(UpdateLive)

\* ------------------------------------------------------------------------
\* The device as built: setup(), then loop() iterations with the button
\* interrupt between them.  Time passes from one iteration to the next; an
\* edge of the button falls at the time of the iteration before it.
\* ------------------------------------------------------------------------
\* the horizon of the loop clock: room for entering EMERGENCY and two 5 s holds
MaxLoopTime == 25000

\* the configured notification interval, within the range ConfigServer accepts
LoopNotifFreq == 2 * MIN_EMERGENCY_NOTIF_FREQ_MS

\* the time from one loop() iteration to the next
LoopSteps == {5000}

InitLoop ==
    /\ \E s \in BootStates :
          ctx = [StateMachineContext EXCEPT
                    !.currentState = s,
                    !.emergencyNotifFreq_ms = LoopNotifFreq]
    /\ now = 0
    /\ pre = ctx
    /\ call = [op |-> "boot", reading |-> NoReading, currentTime |-> 0,
               configServerActive |-> FALSE]
    /\ output = StateMachineOutput
    /\ run = NoRun
    /\ rep = NoRep
    /\ hist = [NoHist EXCEPT !.twin = ctx]
    /\ board = setupBoard(ctx.currentState)
    /\ conf = ConfigServer

\* the standalone state machine on the inputs of one loop() iteration at time
\* t: handleSilenceToggle if the hold detection of the iteration fired, then
\* updateStateMachine with the reading and the session activity of the tick
twinTick(c, toggled, reading, t, configServerActive) ==
    LET g == IF toggled THEN handleSilenceToggle(c)
             ELSE [ ctx |-> c, out |-> StateMachineOutput ]
        u == updateStateMachine(g.ctx, reading, t, configServerActive)
    IN  [ ctx |-> u.ctx,
          out |-> [u.out EXCEPT
                      !.sendSilenceConfirmation = g.out.sendSilenceConfirmation,
                      !.sendUnsilenceConfirmation =
                          g.out.sendUnsilenceConfirmation] ]

\* what is compared after a tick: the state, the commanded horn level, the
\* emissions, the throttle timestamp and the config request
sameBehaviour(s, o, c, p) ==
    /\ s.currentState = c.currentState
    /\ s.hornCurrentlyOn = c.hornCurrentlyOn
    /\ o.sendEmergencyNotification = p.sendEmergencyNotification
    /\ o.sendSilenceConfirmation = p.sendSilenceConfirmation
    /\ o.sendUnsilenceConfirmation = p.sendUnsilenceConfirmation
    /\ s.lastEmergencyMessageTime = c.lastEmergencyMessageTime
    /\ s.configCommandReceived = c.configCommandReceived

\* one iteration of loop()
LoopIteration ==
    \E d \in LoopSteps, reading \in StateMachineSensorReading,
       delivered \in BOOLEAN :
        LET t == now + d
            r == loop(ctx, board, reading, t, delivered)
            other == loop(ctx, board, reading, t, ~delivered)
            w == twinTick(hist.twin, r.board.toggled, reading, t,
                          r.board.setupModeActive)
            same == hist.agree /\ sameBehaviour(r.sys, r.out, w.ctx, w.out)
            sent == \/ r.out.sendEmergencyNotification
                    \/ r.out.sendSilenceConfirmation
        IN  /\ t <= MaxLoopTime
            /\ sent \/ delivered
            /\ now' = t
            /\ pre' = ctx
            /\ ctx' = r.sys
            /\ board' = [r.board EXCEPT
                            !.requestFrom =
                                IF r.sys.configCommandReceived THEN @ ELSE "none",
                            !.holdFlips =
                                IF board.buttonCurrentlyPressed /\ r.board.toggled
                                THEN @ + 1 ELSE @,
                            !.holdInEmergency =
                                IF board.buttonCurrentlyPressed
                                THEN @ /\ r.sys.currentState = EMERGENCY ELSE @,
                            !.holdEnded = FALSE,
                            !.delivered = IF sent THEN delivered ELSE @,
                            !.deliveryBlind = /\ other.sys = r.sys
                                              /\ other.board = r.board]
            /\ output' = r.out
            /\ call' = [op |-> "loop", reading |-> reading, currentTime |-> t,
                        configServerActive |-> r.board.setupModeActive]
            /\ hist' = [hist EXCEPT
                           !.agree = same,
                           !.twin = IF same THEN w.ctx ELSE StateMachineContext]
            /\ UNCHANGED <<run, rep, conf>>

\* the button goes down: the pin falls and the interrupt handler runs
ButtonDown ==
    LET t == now
        r == handleButtonPress(ctx, [board EXCEPT !.pin = LOW], t, LOW)
    IN      /\ board.pin = HIGH
            /\ pre' = ctx
            /\ ctx' = r.sys
            /\ board' = IF r.board.buttonCurrentlyPressed
                            /\ ~board.buttonCurrentlyPressed
                         THEN [r.board EXCEPT
                                  !.pressState = ctx.currentState,
                                  !.holdFlips = 0,
                                  !.holdInEmergency = ctx.currentState = EMERGENCY,
                                  !.holdEnded = FALSE]
                         ELSE [r.board EXCEPT !.holdEnded = FALSE]
            /\ output' = StateMachineOutput
            /\ call' = [call EXCEPT !.op = "press"]
            /\ UNCHANGED <<now, run, rep, hist, conf>>

\* the button comes up: the pin rises and the interrupt handler runs
ButtonUp ==
    LET t == now
        r == handleButtonPress(ctx, [board EXCEPT !.pin = HIGH], t, HIGH)
    IN      /\ board.pin = LOW
            /\ pre' = ctx
            /\ ctx' = r.sys
            /\ board' = [r.board EXCEPT
                            !.requestFrom =
                                IF r.sys.configCommandReceived
                                   /\ ~ctx.configCommandReceived
                                THEN IF board.pressState = ctx.currentState
                                     THEN ctx.currentState ELSE "mixed"
                                ELSE @,
                            !.holdEnded = board.buttonCurrentlyPressed]
            /\ output' = StateMachineOutput
            /\ call' = [call EXCEPT !.op = "release"]
            /\ hist' = [hist EXCEPT
                           !.twin = IF hist.agree
                                    THEN handleButtonPress(@, board, t, HIGH).sys
                                    ELSE @]
            /\ UNCHANGED <<now, run, rep, conf>>

NextLoop == LoopIteration \/ ButtonDown \/ ButtonUp

SpecLoop == InitLoop /\ [][NextLoop]_vars

\* ------------------------------------------------------------------------
\* The hold detection of loop() statement by statement, with the button
\* interrupt and the passing of time between any two statements.  The
\* device has entered EMERGENCY by two iterations with high water and the
\* water stays high.  buttonCurrentlyPressed and buttonPressStartTime are
\* volatile and are read one at a time; the two operands of the subtraction
\* of line 190 are read in either order.
\* ------------------------------------------------------------------------
MaxRaceTime == 17500

RaceSteps == {2500}

RaceReading == [valid |-> TRUE, level_cm |-> 30]

InitRace ==
    LET boot == [StateMachineContext EXCEPT
                    !.emergencyNotifFreq_ms = LoopNotifFreq]
        a == loop(boot, setupBoard(NORMAL), RaceReading, 5000, TRUE)
        b == loop(a.sys, a.board, RaceReading, 10000, TRUE)
    IN  /\ ctx = b.sys
        /\ now = 10000
        /\ pre = a.sys
        /\ call = [op |-> "loop", reading |-> RaceReading,
                   currentTime |-> 10000, configServerActive |-> FALSE]
        /\ output = b.out
        /\ run = NoRun
        /\ rep = NoRep
        /\ hist = NoHist
        /\ board = b.board
        /\ conf = ConfigServer

\* a statement of loop() that leaves systemState alone
RaceStep(nextBoard) ==
    /\ board' = nextBoard
    /\ call' = [call EXCEPT !.op = "step"]
    /\ UNCHANGED <<ctx, now, pre, output, run, rep, hist, conf>>

\* lines 139-177: the sensor is read and sensorError is set
RaceSense ==
    /\ board.race.pc = "idle"
    /\ ctx' = [ctx EXCEPT !.sensorError = ~RaceReading.valid]
    /\ board' = [board EXCEPT !.race.pc = "reset"]
    /\ call' = [call EXCEPT !.op = "step"]
    /\ UNCHANGED <<now, pre, output, run, rep, hist, conf>>

\* lines 184-186: the one-shot is re-armed when a release is seen
RaceReset ==
    /\ board.race.pc = "reset"
    /\ RaceStep([board EXCEPT
                    !.silenceToggleHandled =
                        IF board.lastButtonState /\ ~board.buttonCurrentlyPressed
                        THEN FALSE ELSE @,
                    !.race.pc = "latch"])

\* line 187: lastButtonState = buttonCurrentlyPressed
RaceLatch ==
    /\ board.race.pc = "latch"
    /\ RaceStep([board EXCEPT
                    !.lastButtonState = board.buttonCurrentlyPressed,
                    !.race.pc = "test"])

\* line 189: buttonCurrentlyPressed && systemState.currentState == EMERGENCY
RaceTest ==
    /\ board.race.pc = "test"
    /\ RaceStep([board EXCEPT
                    !.race.pc = IF board.buttonCurrentlyPressed
                                   /\ ctx.currentState = EMERGENCY
                                THEN "hold" ELSE "rest",
                    !.race.flagStamp = board.buttonPressStartTime,
                    !.race.haveClock = FALSE,
                    !.race.haveStamp = FALSE])

\* line 190, left operand: millis()
RaceReadClock ==
    /\ board.race.pc = "hold"
    /\ ~board.race.haveClock
    /\ RaceStep([board EXCEPT
                    !.race.seenClock = now,
                    !.race.haveClock = TRUE,
                    !.race.pc = IF board.race.haveStamp THEN "toggle" ELSE @])

\* line 190, right operand: buttonPressStartTime
RaceReadStamp ==
    /\ board.race.pc = "hold"
    /\ ~board.race.haveStamp
    /\ RaceStep([board EXCEPT
                    !.race.seenStamp = board.buttonPressStartTime,
                    !.race.haveStamp = TRUE,
                    !.race.pc = IF board.race.haveClock THEN "toggle" ELSE @])

\* lines 191-210: the flip of notificationsSilenced
RaceToggle ==
    LET holdDuration == Elapsed(board.race.seenClock, board.race.seenStamp)
        flips == holdDuration >= 5000 /\ ~board.silenceToggleHandled
    IN  /\ board.race.pc = "toggle"
        /\ pre' = ctx
        /\ ctx' = [ctx EXCEPT !.notificationsSilenced = IF flips THEN ~@ ELSE @]
        /\ board' = [board EXCEPT
                        !.silenceToggleHandled = IF flips THEN TRUE ELSE @,
                        !.race.pc = "rest"]
        /\ output' = IF flips /\ ~ctx.notificationsSilenced
                      THEN [StateMachineOutput EXCEPT
                               !.sendSilenceConfirmation = TRUE,
                               !.message = <<MsgSilenced>>]
                      ELSE StateMachineOutput
        /\ call' = [call EXCEPT !.op = IF flips THEN "flip" ELSE "step"]
        /\ UNCHANGED <<now, run, rep, hist, conf>>

\* lines 213-433: the tiers, the switch on the state and the LED
RaceRest ==
    LET s2 == loopEmergencyConditions(ctx, RaceReading, now)
        r3 == loopStateSwitch(s2, board, StateMachineOutput, RaceReading,
                              now, TRUE)
    IN  /\ board.race.pc = "rest"
        /\ pre' = ctx
        /\ ctx' = r3.sys
        /\ board' = [r3.board EXCEPT
                        !.ledPattern = IF r3.sys.currentState # ctx.currentState
                                       THEN ledPatternOf(r3.sys.currentState)
                                       ELSE @,
                        !.race.pc = "idle"]
        /\ output' = r3.out
        /\ call' = [call EXCEPT !.op = "step", !.currentTime = now]
        /\ UNCHANGED <<now, run, rep, hist, conf>>

\* the pin falls and the interrupt handler runs
RaceDown ==
    LET r == handleButtonPress(ctx, [board EXCEPT !.pin = LOW], now, LOW)
    IN  /\ board.pin = HIGH
        /\ ctx' = r.sys
        /\ board' = [r.board EXCEPT !.race.downSince = now]
        /\ call' = [call EXCEPT !.op = "press"]
        /\ UNCHANGED <<now, pre, output, run, rep, hist, conf>>

\* the pin rises and the interrupt handler runs
RaceUp ==
    LET r == handleButtonPress(ctx, [board EXCEPT !.pin = HIGH], now, HIGH)
    IN  /\ board.pin = LOW
        /\ ctx' = r.sys
        /\ board' = r.board
        /\ call' = [call EXCEPT !.op = "release"]
        /\ UNCHANGED <<now, pre, output, run, rep, hist, conf>>

\* time passes
RaceTime ==
    \E d \in RaceSteps :
        /\ now + d <= MaxRaceTime
        /\ now' = now + d
        /\ call' = [call EXCEPT !.op = "time"]
        /\ UNCHANGED <<ctx, pre, output, run, rep, hist, board, conf>>

NextRace ==
    \/ RaceSense \/ RaceReset \/ RaceLatch \/ RaceTest
    \/ RaceReadClock \/ RaceReadStamp \/ RaceToggle \/ RaceRest
    \/ RaceDown \/ RaceUp \/ RaceTime

SpecRace == InitRace /\ [][NextRace]_vars

\* ------------------------------------------------------------------------
\* The configuration collaborator: requests to the two threshold handlers,
\* and restarts of the device, which construct the ConfigServer anew from
\* NVS.  Opening the NVS namespace can fail.
\* ------------------------------------------------------------------------
ConfigLevels == {0, 5, 20, 40, 60, 100, 105}

\* the level_cm argument of a request
ConfigArgs == {[has |-> TRUE, level_cm |-> v] : v \in ConfigLevels} \cup {NoArg}

Thresholds(c) ==
    [ emergencyWaterLevel_cm       |-> c.emergencyWaterLevel_cm,
      urgentEmergencyWaterLevel_cm |-> c.urgentEmergencyWaterLevel_cm ]

SetEmergencyLevel ==
    \E arg \in ConfigArgs, beginOk \in BOOLEAN :
        /\ conf' = [handleSetEmergencyLevel(conf, arg, beginOk) EXCEPT
                       !.op = "tier1", !.arg = arg, !.before = Thresholds(conf)]
        /\ UNCHANGED <<ctx, now, pre, call, output, run, rep, hist, board>>

SetUrgentEmergencyLevel ==
    \E arg \in ConfigArgs, beginOk \in BOOLEAN :
        /\ conf' = [handleSetUrgentEmergencyLevel(conf, arg, beginOk) EXCEPT
                       !.op = "tier2", !.arg = arg, !.before = Thresholds(conf)]
        /\ UNCHANGED <<ctx, now, pre, call, output, run, rep, hist, board>>

\* the device restarts: setup() constructs the ConfigServer, which loads the
\* settings
Restart ==
    \E beginOk \in BOOLEAN :
        LET loaded == loadEmergencySettings(conf.nvs, beginOk)
        IN  /\ conf' = [conf EXCEPT
                           !.emergencyWaterLevel_cm = loaded.emergencyWaterLevel_cm,
                           !.urgentEmergencyWaterLevel_cm =
                               loaded.urgentEmergencyWaterLevel_cm,
                           !.status = 0, !.op = "construct", !.arg = NoArg,
                           !.before = Thresholds(conf)]
            /\ UNCHANGED <<ctx, now, pre, call, output, run, rep, hist, board>>

NextConfig == SetEmergencyLevel \/ SetUrgentEmergencyLevel \/ Restart

SpecConfig == Init /\ [][NextConfig]_vars

\* ------------------------------------------------------------------------
\* Readings oscillating around the tier-1 threshold: valid readings just
\* below and at the threshold, no button, over a horizon long enough for
\* the device to enter EMERGENCY, leave it and enter it again.
\* ------------------------------------------------------------------------
MaxFlapTime == 6000

FlapReadings == [valid : {TRUE}, level_cm : {10, 30}]

UpdateFlap ==
    \E d \in Steps, reading \in FlapReadings :
        LET currentTime == now + d
            r == updateStateMachine(ctx, reading, currentTime, FALSE)
        IN  /\ currentTime <= MaxFlapTime
            /\ now' = currentTime
            /\ pre' = ctx
            /\ ctx' = r.ctx
            /\ output' = r.out
            /\ call' = [op |-> "update", reading |-> reading,
                        currentTime |-> currentTime,
                        configServerActive |-> FALSE]
            /\ hist' = NextAlerts(NextSink(NextPast(NextHist(reading, r.ctx),
                                                    r.ctx, currentTime), r.out),
                                  r.ctx, r.out, currentTime)
            /\ UNCHANGED <<run, rep, board, conf>>

NextFlap == UpdateFlap

SpecFlap == Init /\ [][NextFlap]_vars

\* ------------------------------------------------------------------------
\* The clock wrapping once: the device has been in NORMAL with valid readings
\* below the thresholds since boot, and the model starts WrapLead before the
\* millisecond clock wraps and runs until MaxWrapTime after it.  The time
\* since boot is kept next to the clock.
\* ------------------------------------------------------------------------
WrapLead == 3000

MaxWrapTime == 1500

WrapReadings == [valid : {TRUE}, level_cm : Levels]

InitWrap ==
    /\ ctx = StateMachineContext
    /\ now = ClockModulus - WrapLead
    /\ pre = ctx
    /\ call = [op |-> "boot", reading |-> NoReading,
               currentTime |-> ClockModulus - WrapLead,
               configServerActive |-> FALSE]
    /\ output = StateMachineOutput
    /\ run = NoRun
    /\ rep = NoRep
    /\ hist = [NoHist EXCEPT !.trueNow = ClockModulus - WrapLead]
    /\ board = setupBoard(ctx.currentState)
    /\ conf = ConfigServer

\* the times of the last writes after an update at time t since boot that
\* took the context to after
NextStamps(after, out, t) ==
    [ emergencyConditionsTrueTime  |->
          IF ~ctx.emergencyConditions /\ after.emergencyConditions
          THEN t ELSE hist.at.emergencyConditionsTrueTime,
      emergencyConditionsFalseTime |->
          IF ctx.emergencyConditions /\ ~after.emergencyConditions
          THEN t ELSE hist.at.emergencyConditionsFalseTime,
      lastEmergencyMessageTime     |->
          IF out.sendEmergencyNotification
          THEN t ELSE hist.at.lastEmergencyMessageTime,
      lastHornToggleTime           |->
          IF after.currentState = EMERGENCY
             /\ after.hornCurrentlyOn # ctx.hornCurrentlyOn
          THEN t ELSE hist.at.lastHornToggleTime ]

UpdateWrap ==
    \E d \in Steps, reading \in WrapReadings :
        LET currentTime == (now + d) % ClockModulus
            r == updateStateMachine(ctx, reading, currentTime, FALSE)
        IN  /\ hist.trueNow + d <= ClockModulus + MaxWrapTime
            /\ now' = currentTime
            /\ pre' = ctx
            /\ ctx' = r.ctx
            /\ output' = r.out
            /\ call' = [op |-> "update", reading |-> reading,
                        currentTime |-> currentTime,
                        configServerActive |-> FALSE]
            /\ hist' = [hist EXCEPT
                           !.trueNow = @ + d,
                           !.before = hist.at,
                           !.at = NextStamps(r.ctx, r.out, hist.trueNow + d)]
            /\ UNCHANGED <<run, rep, board, conf>>

NextWrap == UpdateWrap

SpecWrap == InitWrap /\ [][NextWrap]_vars

\* ------------------------------------------------------------------------
\* Alerts over more than one notification interval: the same readings, with
\* the silence toggle and a notification interval of three seconds, so that
\* the device can enter EMERGENCY well within the first interval after boot
\* and two alerts fit into the horizon.
\* ------------------------------------------------------------------------
AlertFreq == 3000

InitAlert ==
    /\ \E s \in BootStates :
          ctx = [StateMachineContext EXCEPT
                    !.currentState = s,
                    !.emergencyNotifFreq_ms = AlertFreq]
    /\ now = 0
    /\ pre = ctx
    /\ call = [op |-> "boot", reading |-> NoReading, currentTime |-> 0,
               configServerActive |-> FALSE]
    /\ output = StateMachineOutput
    /\ run = NoRun
    /\ rep = NoRep
    /\ hist = NoHist
    /\ board = setupBoard(ctx.currentState)
    /\ conf = ConfigServer

NextAlert == UpdateFlap \/ SilenceToggle

SpecAlert == InitAlert /\ [][NextAlert]_vars

\* ------------------------------------------------------------------------
\* Properties
\* ------------------------------------------------------------------------

LastWasUpdate == call.op = "update"

\* C1 - horn invariant: at the end of every call the horn is on only in
\* EMERGENCY with tier 2 active and notifications not silenced
C1_HornInvariant ==
    ctx.hornCurrentlyOn =>
        /\ ctx.currentState = EMERGENCY
        /\ ctx.urgentEmergencyConditions
        /\ ~ctx.notificationsSilenced

\* an update has just switched the horn on
C1_Witness ==
    /\ LastWasUpdate
    /\ ~pre.hornCurrentlyOn
    /\ ctx.hornCurrentlyOn
    /\ output.setHornState /\ output.hornOn

\* C2 - entry debounce: an update takes NORMAL->EMERGENCY only if this
\* tick's reading and those of every tick of the last 1000 ms or more, back
\* to the tick that first reached the tier-1 threshold, were at or above it
C2_EntryDebounce ==
    (LastWasUpdate /\ pre.currentState = NORMAL /\ ctx.currentState = EMERGENCY)
        => /\ run.active
           /\ Elapsed(call.currentTime, run.t0) >= EMERGENCY_TIMEOUT_MS

\* NORMAL->EMERGENCY taken after an earlier crossing that dropped again
\* within the window
C2_Witness ==
    /\ LastWasUpdate
    /\ pre.currentState = NORMAL
    /\ ctx.currentState = EMERGENCY
    /\ run.t0 > 500
    /\ ctx.emergencyConditionsFalseTime > 0

\* C3 - exit debounce: from EMERGENCY an update changes the state exactly
\* when this tick's reading is below the tier-1 threshold and the falling edge
\* is at least EMERGENCY_TIMEOUT_MS old, and then the state is NORMAL
C3_ExitDebounce ==
    (LastWasUpdate /\ pre.currentState = EMERGENCY)
        => /\ output.stateChanged
                <=> /\ call.reading.level_cm < ctx.emergencyWaterLevel_cm
                    /\ Elapsed(call.currentTime, ctx.emergencyConditionsFalseTime)
                         >= EMERGENCY_TIMEOUT_MS
           /\ output.stateChanged
                => (output.newState = NORMAL /\ ctx.currentState = NORMAL)
           /\ ~output.stateChanged => ctx.currentState = EMERGENCY

\* the exit is taken on an invalid reading, while silenced, with a config
\* request pending
C3_Witness ==
    /\ LastWasUpdate
    /\ pre.currentState = EMERGENCY
    /\ output.stateChanged
    /\ ~call.reading.valid
    /\ pre.notificationsSilenced
    /\ pre.configCommandReceived

\* C4 as stated - an invalid reading leaves the state ERROR whatever the
\* prior state
C4_InvalidForcesError ==
    (LastWasUpdate /\ ~call.reading.valid) => ctx.currentState = ERROR

\* C4 as amended - an invalid reading leaves the state ERROR when the prior
\* state is NORMAL, or ERROR without a pending config request, whatever the
\* tier flags
C4_InvalidForcesErrorFromNormal ==
    (/\ LastWasUpdate
     /\ ~call.reading.valid
     /\ \/ pre.currentState = NORMAL
        \/ pre.currentState = ERROR /\ ~pre.configCommandReceived)
        => ctx.currentState = ERROR

\* NORMAL->ERROR on an invalid reading although tier 1 is debounced and a
\* config request is pending
C4_Witness ==
    /\ LastWasUpdate
    /\ ~call.reading.valid
    /\ pre.currentState = NORMAL
    /\ ctx.currentState = ERROR
    /\ ctx.emergencyConditions
    /\ Elapsed(call.currentTime, ctx.emergencyConditionsTrueTime)
         >= EMERGENCY_TIMEOUT_MS
    /\ ctx.configCommandReceived

\* C5 - after an update made with an invalid reading the device is not in
\* NORMAL
C5_NoAllClearOnInvalid ==
    (LastWasUpdate /\ ~call.reading.valid) => ctx.currentState # NORMAL

\* C6 - silence invariant: notifications are silenced only in EMERGENCY (so
\* the update that leaves EMERGENCY for NORMAL leaves the flag false)
C6_SilenceInvariant ==
    ctx.notificationsSilenced => ctx.currentState = EMERGENCY

\* a silenced emergency has just ended
C6_Witness ==
    /\ LastWasUpdate
    /\ pre.currentState = EMERGENCY
    /\ pre.notificationsSilenced
    /\ ctx.currentState = NORMAL
    /\ ~ctx.notificationsSilenced

\* C7 - in EMERGENCY every tick on which the notification interval has
\* elapsed sets lastEmergencyMessageTime to now, silenced or not, and emits
\* no alert when silenced
C7_ThrottleAdvancesWhenSilenced ==
    (/\ LastWasUpdate
     /\ ctx.currentState = EMERGENCY
     /\ Elapsed(call.currentTime, pre.lastEmergencyMessageTime)
          >= pre.emergencyNotifFreq_ms)
        => /\ ctx.lastEmergencyMessageTime = call.currentTime
           /\ ctx.notificationsSilenced => ~output.sendEmergencyNotification

\* C8 - alert condition: an update emits an alert exactly when, after its
\* transition step, the state is EMERGENCY, notifications are not silenced
\* and the interval has elapsed; no other call emits one
C8_AlertCondition ==
    output.sendEmergencyNotification
        <=> /\ LastWasUpdate
            /\ ctx.currentState = EMERGENCY
            /\ ~ctx.notificationsSilenced
            /\ Elapsed(call.currentTime, pre.lastEmergencyMessageTime)
                 >= pre.emergencyNotifFreq_ms

\* an alert is emitted on the tick EMERGENCY is entered
C8_Witness ==
    /\ LastWasUpdate
    /\ output.sendEmergencyNotification
    /\ output.stateChanged
    /\ ctx.lastEmergencyMessageTime = call.currentTime

\* C9 as stated - the second of two updates with the same arguments does not
\* change the state
C9_SecondUpdateNoChange ==
    rep.same => ~output.stateChanged

\* C9 as amended - the second of two updates with the same arguments does
\* not change the state when the first did not change it or left the device
\* in EMERGENCY or CONFIG
C9_SecondUpdateNoChangeUnlessChained ==
    (/\ rep.same
     /\ \/ ~rep.firstChanged
        \/ pre.currentState \in {EMERGENCY, CONFIG})
        => ~output.stateChanged

\* the first update entered EMERGENCY and was then repeated
C9_Witness ==
    /\ rep.same
    /\ rep.firstChanged
    /\ pre.currentState = EMERGENCY
    /\ ~output.stateChanged

\* C10 - with valid readings at or above the tier-1 threshold on every tick
\* since the rising edge at t0, taken in NORMAL, and no config request, the
\* state is NORMAL while now - t0 < 1000 and EMERGENCY from then on
C10_EntryAtDebounce ==
    (run.active /\ run.clean)
        => IF Elapsed(now, run.t0) < EMERGENCY_TIMEOUT_MS
           THEN ctx.currentState = NORMAL
           ELSE ctx.currentState = EMERGENCY

\* the entry is taken on the tick the debounce is reached
C10_Witness ==
    /\ LastWasUpdate
    /\ run.active /\ run.clean
    /\ Elapsed(now, run.t0) = EMERGENCY_TIMEOUT_MS
    /\ output.stateChanged
    /\ ctx.currentState = EMERGENCY

\* C11 - while every reading since boot was below the tier-1 threshold, the
\* tier-1 flag is false and the state is not EMERGENCY
C11_NoEmergencyBelowThreshold ==
    ~hist.everHigh
        => /\ ~ctx.emergencyConditions
           /\ ctx.currentState # EMERGENCY

\* low readings only, for longer than the debounce, through an invalid
\* reading, a config request and a silence toggle
C11_Witness ==
    /\ ~hist.everHigh
    /\ LastWasUpdate
    /\ call.currentTime >= 2 * EMERGENCY_TIMEOUT_MS
    /\ ctx.currentState = CONFIG
    /\ hist.viaRequest
    /\ ctx.lastStateChangeTime > ctx.emergencyConditionsTrueTime + EMERGENCY_TIMEOUT_MS

\* the row of the transition table that matches first, given the state before
\* the update, this tick's inputs and the edge time-stamps after evaluation
TableNext ==
    LET sensor_error == ~call.reading.valid
        tier1_active == call.reading.level_cm >= pre.emergencyWaterLevel_cm
        rise_debounced == Elapsed(call.currentTime, ctx.emergencyConditionsTrueTime)
                            >= EMERGENCY_TIMEOUT_MS
        fall_debounced == Elapsed(call.currentTime, ctx.emergencyConditionsFalseTime)
                            >= EMERGENCY_TIMEOUT_MS
        config_requested == pre.configCommandReceived
    IN  CASE pre.currentState = ERROR ->
               IF ~sensor_error THEN NORMAL
               ELSE IF config_requested THEN CONFIG ELSE ERROR
          [] pre.currentState = NORMAL ->
               IF sensor_error THEN ERROR
               ELSE IF tier1_active /\ rise_debounced THEN EMERGENCY
               ELSE IF config_requested THEN CONFIG ELSE NORMAL
          [] pre.currentState = CONFIG ->
               IF ~call.configServerActive /\ ~config_requested THEN NORMAL
               ELSE CONFIG
          [] pre.currentState = EMERGENCY ->
               IF ~tier1_active /\ fall_debounced THEN NORMAL ELSE EMERGENCY

\* C12 - transition table conformance: every update leaves the state the
\* first matching row of the table gives, and reports a change exactly when
\* that differs from the state before
C12_TableConformance ==
    LastWasUpdate
        => /\ ctx.currentState = TableNext
           /\ output.stateChanged <=> (TableNext # pre.currentState)
           /\ output.stateChanged => output.newState = TableNext

\* NORMAL with tier 1 debounced and a config request pending: EMERGENCY wins
C12_Witness ==
    /\ LastWasUpdate
    /\ pre.currentState = NORMAL
    /\ pre.configCommandReceived
    /\ call.reading.valid
    /\ ctx.currentState = EMERGENCY

\* C13 - an update that takes NORMAL->CONFIG or ERROR->CONFIG leaves
\* configCommandReceived false
C13_RequestConsumed ==
    (LastWasUpdate /\ pre.currentState \in {NORMAL, ERROR}
                   /\ ctx.currentState = CONFIG)
        => ~ctx.configCommandReceived

\* C14 - config always ends: if from some point on the session is reported
\* inactive and the button is not pressed, then whenever the device is in
\* CONFIG after entering it by NORMAL->CONFIG or ERROR->CONFIG, a later update
\* brings it to NORMAL
C14_ConfigAlwaysEnds ==
    (<>[](call.op # "button" /\ ~call.configServerActive))
        => [](hist.viaRequest => <>(ctx.currentState = NORMAL))

\* C15 - an update made in CONFIG with the session active keeps CONFIG for
\* every reading, emits no alert and does not command the horn on
C15_ConfigHeldWhileActive ==
    (LastWasUpdate /\ pre.currentState = CONFIG /\ call.configServerActive)
        => /\ ctx.currentState = CONFIG
           /\ ~output.stateChanged
           /\ ~output.sendEmergencyNotification
           /\ ~(output.setHornState /\ output.hornOn)
           /\ ~ctx.hornCurrentlyOn

\* CONFIG held with no request pending through an invalid reading at the
\* tier-2 level whose rising edge is older than the debounce
C15_Witness ==
    /\ LastWasUpdate
    /\ pre.currentState = CONFIG
    /\ call.configServerActive
    /\ ~pre.configCommandReceived
    /\ ~call.reading.valid
    /\ ctx.urgentEmergencyConditions
    /\ Elapsed(call.currentTime, ctx.emergencyConditionsTrueTime)
         >= EMERGENCY_TIMEOUT_MS
    /\ ctx.currentState = CONFIG

C17_ToggleOutsideEmergency ==
    (call.op = "toggle" /\ pre.currentState # EMERGENCY)
        => /\ ctx = pre
           /\ output = StateMachineOutput

\* a toggle was made in NORMAL
C17_Witness ==
    /\ call.op = "toggle"
    /\ pre.currentState = NORMAL
    /\ pre.emergencyConditions

\* the toggle of the standalone handler: in EMERGENCY handleSilenceToggle
\* flips the flag, confirms the flip, and on silencing switches a sounding
\* horn off with a horn-off command
C18_HandlerToggleEffect ==
    (call.op = "toggle" /\ pre.currentState = EMERGENCY)
        => /\ ctx.notificationsSilenced = ~pre.notificationsSilenced
           /\ ctx.notificationsSilenced
                  => /\ output.sendSilenceConfirmation
                     /\ pre.hornCurrentlyOn
                            => /\ ~ctx.hornCurrentlyOn
                               /\ output.setHornState /\ ~output.hornOn
           /\ ~ctx.notificationsSilenced => output.sendUnsilenceConfirmation

\* the silencing half of the toggle embedded in loop()
C18_LoopSilenceEffect ==
    (call.op = "loop" /\ board.toggled /\ ~pre.notificationsSilenced)
        => /\ output.sendSilenceConfirmation
           /\ pre.hornCurrentlyOn
                  => /\ ~ctx.hornCurrentlyOn
                     /\ output.setHornState /\ ~output.hornOn

\* C18 - a loop() iteration whose embedded toggle flips the silence flag
\* emits a silence confirmation when the flip silences (and switches a
\* sounding horn off with a horn-off command) and an unsilence confirmation
\* when the flip unsilences, as the standalone handler does.
C18_LoopToggleEffect ==
    (call.op = "loop" /\ board.toggled)
        => /\ ~pre.notificationsSilenced
                  => /\ output.sendSilenceConfirmation
                     /\ pre.hornCurrentlyOn
                            => /\ ~ctx.hornCurrentlyOn
                               /\ output.setHornState /\ ~output.hornOn
           /\ pre.notificationsSilenced => output.sendUnsilenceConfirmation

\* C19 - horn pulse step: in EMERGENCY with tier 2 active and not silenced an
\* update flips the horn exactly when the current phase has lasted its
\* duration; a flip stamps lastHornToggleTime and emits the new level,
\* otherwise horn flag and timer are unchanged and no command is emitted
C19_HornPulseStep ==
    (/\ LastWasUpdate
     /\ ctx.currentState = EMERGENCY
     /\ ctx.urgentEmergencyConditions
     /\ ~ctx.notificationsSilenced)
        => LET phase == IF pre.hornCurrentlyOn THEN pre.hornOnDuration_ms
                        ELSE pre.hornOffDuration_ms
               due == Elapsed(call.currentTime, pre.lastHornToggleTime) >= phase
           IN  IF due
               THEN /\ ctx.hornCurrentlyOn = ~pre.hornCurrentlyOn
                    /\ ctx.lastHornToggleTime = call.currentTime
                    /\ output.setHornState
                    /\ output.hornOn = ctx.hornCurrentlyOn
               ELSE /\ ctx.hornCurrentlyOn = pre.hornCurrentlyOn
                    /\ ctx.lastHornToggleTime = pre.lastHornToggleTime
                    /\ ~output.setHornState

\* the horn is switched off at the end of an on phase of exactly its duration
C19_Witness ==
    /\ LastWasUpdate
    /\ ctx.currentState = EMERGENCY
    /\ ctx.urgentEmergencyConditions
    /\ ~ctx.notificationsSilenced
    /\ pre.hornCurrentlyOn
    /\ ~ctx.hornCurrentlyOn
    /\ Elapsed(call.currentTime, pre.lastHornToggleTime) = pre.hornOnDuration_ms

\* C20 - a short press made and released while the device is in EMERGENCY
\* never causes a later loop() iteration to take the device to CONFIG.
C20_EmergencyPressNeverConfigures ==
    (call.op = "loop" /\ output.stateChanged /\ output.newState = CONFIG)
        => board.requestFrom # EMERGENCY

\* C21 - one toggle per hold: when the interrupt handler ends an accepted
\* press that lasted at least 5000 ms with the device in EMERGENCY from the
\* press on, loop() has flipped notificationsSilenced exactly once during it.
C21_OneTogglePerHold ==
    ( /\ call.op = "release"
      /\ board.holdEnded
      /\ board.holdInEmergency
      /\ Elapsed(now, board.buttonPressStartTime) >= 5000 )
        => board.holdFlips = 1

\* C22 - fire and forget: a loop() iteration leaves the same device state
\* whether sms.send and discord.send succeed or fail, and an alert is sent
\* only when the notification interval has passed since the alert before it,
\* whose time the iteration records whatever the transports return.
C22_FireAndForget ==
    call.op = "loop"
        => /\ board.deliveryBlind
           /\ output.sendEmergencyNotification
                  => /\ Elapsed(call.currentTime, pre.lastEmergencyMessageTime)
                            >= pre.emergencyNotifFreq_ms
                     /\ ctx.lastEmergencyMessageTime = call.currentTime

\* the alert of the iteration before failed and this iteration, inside the
\* interval, does not send it again
C22_Witness ==
    /\ call.op = "loop"
    /\ pre.currentState = EMERGENCY
    /\ ctx.currentState = EMERGENCY
    /\ ~ctx.notificationsSilenced
    /\ ~board.delivered
    /\ ~output.sendEmergencyNotification
    /\ Elapsed(call.currentTime, ctx.lastEmergencyMessageTime)
           < ctx.emergencyNotifFreq_ms
    /\ ctx.lastEmergencyMessageTime > 0

\* C23 - the LED tracks the state: after setup() and after every loop()
\* iteration the LED is off in NORMAL, blinks slowly in CONFIG, blinks fast
\* in ERROR and is solid in EMERGENCY.
C23_LedTracksState ==
    call.op \in {"boot", "loop"}
        => /\ ctx.currentState = NORMAL => board.ledPattern = PATTERN_OFF
           /\ ctx.currentState = CONFIG => board.ledPattern = PATTERN_SLOW_BLINK
           /\ ctx.currentState = ERROR => board.ledPattern = PATTERN_FAST_BLINK
           /\ ctx.currentState = EMERGENCY => board.ledPattern = PATTERN_SOLID

\* an iteration took the device from NORMAL to ERROR after an emergency
C23_Witness ==
    /\ call.op = "loop"
    /\ pre.currentState = NORMAL
    /\ ctx.currentState = ERROR
    /\ ctx.lastEmergencyMessageTime > 0
    /\ board.ledPattern = PATTERN_FAST_BLINK

C25_AntiFlapping ==
    hist.prevFlipTime >= 0
        => hist.flipTime - hist.prevFlipTime >= EMERGENCY_TIMEOUT_MS

\* the device has entered EMERGENCY, has left it, and this update enters it
\* again
C25_Witness ==
    /\ LastWasUpdate
    /\ output.stateChanged
    /\ pre.currentState = NORMAL
    /\ ctx.currentState = EMERGENCY
    /\ hist.prevFlipTime >= 0
    /\ hist.flipTime = call.currentTime

\* C26 - tier evaluation ignores validity: after every update the sensor
\* error flag is the negation of the reading's validity and the two tier
\* flags compare the reading's level with the two thresholds, whether the
\* reading is valid or not; tier 2 active implies tier 1 active.
C26_TierEvaluation ==
    LastWasUpdate
        => /\ ctx.sensorError = ~call.reading.valid
           /\ ctx.emergencyConditions
                  = (call.reading.level_cm >= ctx.emergencyWaterLevel_cm)
           /\ ctx.urgentEmergencyConditions
                  = (call.reading.level_cm >= ctx.urgentEmergencyWaterLevel_cm)
           /\ ctx.urgentEmergencyConditions => ctx.emergencyConditions

\* an invalid reading at the tier-2 threshold raised both tiers
C26_Witness ==
    /\ LastWasUpdate
    /\ ~call.reading.valid
    /\ call.reading.level_cm >= ctx.urgentEmergencyWaterLevel_cm
    /\ ~pre.emergencyConditions
    /\ ctx.emergencyConditions
    /\ ctx.urgentEmergencyConditions
    /\ ctx.sensorError

\* C27 - edge timestamps change only on edges: an update sets
\* emergencyConditionsTrueTime to its time exactly when the tier-1 flag goes
\* from false to true and emergencyConditionsFalseTime exactly when it goes
\* from true to false; otherwise the timestamps stay.
C27_EdgeTimestamps ==
    LastWasUpdate
        => /\ ctx.emergencyConditionsTrueTime
                  = IF ~pre.emergencyConditions /\ ctx.emergencyConditions
                    THEN call.currentTime
                    ELSE pre.emergencyConditionsTrueTime
           /\ ctx.emergencyConditionsFalseTime
                  = IF pre.emergencyConditions /\ ~ctx.emergencyConditions
                    THEN call.currentTime
                    ELSE pre.emergencyConditionsFalseTime

\* a tick below the threshold after the fall keeps the fall's timestamp
C27_Witness ==
    /\ LastWasUpdate
    /\ ~pre.emergencyConditions
    /\ ~ctx.emergencyConditions
    /\ ctx.emergencyConditionsFalseTime > 0
    /\ ctx.emergencyConditionsFalseTime < call.currentTime
    /\ ctx.emergencyConditionsTrueTime < ctx.emergencyConditionsFalseTime

C28_QuietAfterUnsilence ==
    /\ LastWasUpdate
    /\ hist.afterUnsilence
    /\ ctx.currentState = EMERGENCY
    /\ ~output.sendEmergencyNotification

\* C29 - horn timer freezes while silenced: an update that starts silenced in
\* EMERGENCY leaves lastHornToggleTime as it was, and so does the silence
\* toggle itself.
C29_HornTimerFrozen ==
    /\ (LastWasUpdate /\ pre.notificationsSilenced
                      /\ pre.currentState = EMERGENCY)
           => ctx.lastHornToggleTime = pre.lastHornToggleTime
    /\ call.op = "toggle" => ctx.lastHornToggleTime = pre.lastHornToggleTime

\* a silenced update in EMERGENCY with tier 2 active, after the horn had
\* toggled at least once
C29_Witness ==
    /\ LastWasUpdate
    /\ pre.notificationsSilenced
    /\ pre.currentState = EMERGENCY
    /\ ctx.currentState = EMERGENCY
    /\ ctx.urgentEmergencyConditions
    /\ ctx.lastHornToggleTime > 0
    /\ ctx.lastHornToggleTime < call.currentTime

\* C29 in loop(): an iteration that starts in EMERGENCY and ends silenced
\* leaves lastHornToggleTime as it was
C29_LoopHornTimerFrozen ==
    (call.op = "loop" /\ pre.currentState = EMERGENCY
                      /\ ctx.notificationsSilenced)
        => ctx.lastHornToggleTime = pre.lastHornToggleTime

\* C30 - alert wording follows tier 2: an emergency alert carries the urgent
\* phrasing when urgentEmergencyConditions is true on that tick and the
\* standard phrasing otherwise.
C30_AlertWording ==
    (LastWasUpdate /\ output.sendEmergencyNotification)
        => output.message[1] = IF ctx.urgentEmergencyConditions
                               THEN MsgUrgent ELSE MsgStandard

\* an alert of a tick on which tier 2 became active carries the urgent
\* phrasing
C30_Witness ==
    /\ LastWasUpdate
    /\ output.sendEmergencyNotification
    /\ ~pre.urgentEmergencyConditions
    /\ ctx.urgentEmergencyConditions
    /\ output.message[1] = MsgUrgent

\* C30 in loop(): the alert of an iteration carries the urgent phrasing of
\* loop() exactly when tier 2 is active
C30_LoopAlertWording ==
    (call.op = "loop" /\ output.sendEmergencyNotification)
        => output.message[1] = IF ctx.urgentEmergencyConditions
                               THEN MsgUrgentLoop ELSE MsgStandard

\* C32 - horn line tracks the horn flag: a call emits a horn command exactly
\* when it changes hornCurrentlyOn, the command carries the new value, and
\* the line of a sink that applies every command equals hornCurrentlyOn.
C32_HornLineTracks ==
    /\ hist.hornLine = ctx.hornCurrentlyOn
    /\ call.op \in {"update", "toggle"}
           => /\ output.setHornState
                     <=> (ctx.hornCurrentlyOn # pre.hornCurrentlyOn)
              /\ output.setHornState => output.hornOn = ctx.hornCurrentlyOn

\* a sounding horn was switched off by the silence toggle and the sink
\* followed
C32_Witness ==
    /\ call.op = "toggle"
    /\ pre.hornCurrentlyOn
    /\ output.setHornState
    /\ ~output.hornOn
    /\ ~hist.hornLine

\* the horn was switched off by an update and the sink followed
C32_OffByUpdate ==
    /\ LastWasUpdate
    /\ pre.hornCurrentlyOn
    /\ ~ctx.hornCurrentlyOn
    /\ ~hist.hornLine

\* C37 - a config request is not lost: an update that starts in NORMAL or
\* ERROR with a config request pending and ends in NORMAL or ERROR leaves the
\* request pending.
C37_RequestSurvives ==
    (/\ LastWasUpdate
     /\ pre.configCommandReceived
     /\ pre.currentState \in {NORMAL, ERROR}
     /\ ctx.currentState \in {NORMAL, ERROR})
        => ctx.configCommandReceived

\* C37 in loop(): an iteration that starts in NORMAL or ERROR with a config
\* request pending and ends in NORMAL or ERROR leaves the request pending
C37_LoopRequestSurvives ==
    (/\ call.op = "loop"
     /\ pre.configCommandReceived
     /\ pre.currentState \in {NORMAL, ERROR}
     /\ ctx.currentState \in {NORMAL, ERROR})
        => ctx.configCommandReceived

\* loop() took ERROR->NORMAL with a config request pending
C37_LoopErrorToNormal ==
    /\ call.op = "loop"
    /\ pre.configCommandReceived
    /\ pre.currentState = ERROR
    /\ ctx.currentState = NORMAL

\* C34 - alert throttling: two consecutive emergency alerts of
\* updateStateMachine are at least emergencyNotifFreq_ms apart, within one
\* emergency, across emergencies and across silence and unsilence.
C34_AlertThrottling ==
    hist.prevAlert >= 0
        => hist.lastAlert - hist.prevAlert >= ctx.emergencyNotifFreq_ms

\* the second alert was sent in a later emergency than the first
C34_Witness ==
    /\ LastWasUpdate
    /\ output.sendEmergencyNotification
    /\ hist.lastAlert = call.currentTime
    /\ hist.prevAlert >= 0
    /\ hist.prevFlipTime > hist.prevAlert

\* the second alert was sent by the first update after the silence was lifted
C34_AcrossSilence ==
    /\ LastWasUpdate
    /\ output.sendEmergencyNotification
    /\ hist.prevAlert >= 0
    /\ hist.afterUnsilence

\* C35 - prompt first alert: an entry into EMERGENCY is accompanied by an
\* emergency alert on the entry tick or, while the device stays in EMERGENCY
\* with the alerts not silenced, on the tick after it.
C35_PromptFirstAlert ==
    (/\ LastWasUpdate
     /\ hist.afterQuietEntry
     /\ ctx.currentState = EMERGENCY
     /\ ~ctx.notificationsSilenced)
        => output.sendEmergencyNotification

\* the inputs of C36: the last call is an update with a valid reading at or
\* above the tier-1 threshold and the config session inactive
HighWaterTick ==
    /\ LastWasUpdate
    /\ call.reading.valid
    /\ call.reading.level_cm >= ctx.emergencyWaterLevel_cm
    /\ ~call.configServerActive

\* C36 - no missed emergency: if from some tick on every call is an update
\* with a valid reading at or above the tier-1 threshold and the session
\* inactive (no button event, no toggle), the device eventually is in
\* EMERGENCY and stays there.
C36_NoMissedEmergency ==
    (<>[]HighWaterTick) => <>[](ctx.currentState = EMERGENCY)

\* the time since boot that had passed at the last update since the write at
\* time t since boot
TrueElapsed(t) == hist.trueNow - t

\* C38 - wrap-safe timers: whenever less than one clock period has passed
\* since the timestamp was written, the debounce of the entry, the debounce
\* of the exit, the notification interval and the horn phase decide as the
\* time that has really passed decides, also when the clock has wrapped in
\* between.
C38_WrapSafeTimers ==
    LastWasUpdate
        => /\ (/\ pre.currentState = NORMAL
               /\ ctx.emergencyConditions
               /\ TrueElapsed(hist.at.emergencyConditionsTrueTime)
                      < ClockModulus)
                  => (ctx.currentState = EMERGENCY
                         <=> TrueElapsed(hist.at.emergencyConditionsTrueTime)
                                 >= EMERGENCY_TIMEOUT_MS)
           /\ (/\ pre.currentState = EMERGENCY
               /\ ~ctx.emergencyConditions
               /\ TrueElapsed(hist.at.emergencyConditionsFalseTime)
                      < ClockModulus)
                  => (ctx.currentState = NORMAL
                         <=> TrueElapsed(hist.at.emergencyConditionsFalseTime)
                                 >= EMERGENCY_TIMEOUT_MS)
           /\ (/\ ctx.currentState = EMERGENCY
               /\ ~ctx.notificationsSilenced
               /\ TrueElapsed(hist.before.lastEmergencyMessageTime)
                      < ClockModulus)
                  => (output.sendEmergencyNotification
                         <=> TrueElapsed(hist.before.lastEmergencyMessageTime)
                                 >= ctx.emergencyNotifFreq_ms)
           /\ (/\ ctx.currentState = EMERGENCY
               /\ ctx.urgentEmergencyConditions
               /\ ~ctx.notificationsSilenced
               /\ TrueElapsed(hist.before.lastHornToggleTime) < ClockModulus)
                  => (ctx.hornCurrentlyOn # pre.hornCurrentlyOn
                         <=> TrueElapsed(hist.before.lastHornToggleTime)
                                 >= IF pre.hornCurrentlyOn
                                    THEN ctx.hornOnDuration_ms
                                    ELSE ctx.hornOffDuration_ms)

\* the horn was switched off after the wrap, one on-phase after it had been
\* switched on before the wrap
C38_Witness ==
    /\ LastWasUpdate
    /\ ctx.currentState = EMERGENCY
    /\ pre.hornCurrentlyOn
    /\ ~ctx.hornCurrentlyOn
    /\ ctx.urgentEmergencyConditions
    /\ pre.lastHornToggleTime > call.currentTime
    /\ hist.before.lastHornToggleTime < ClockModulus
    /\ hist.trueNow >= ClockModulus

\* the entry debounce ran out after the wrap for a rise before the wrap
C38_EntryAcrossWrap ==
    /\ LastWasUpdate
    /\ pre.currentState = NORMAL
    /\ ctx.currentState = EMERGENCY
    /\ ctx.emergencyConditionsTrueTime > call.currentTime

\* the exit debounce ran out after the wrap for a fall before the wrap
C38_ExitAcrossWrap ==
    /\ LastWasUpdate
    /\ pre.currentState = EMERGENCY
    /\ ctx.currentState = NORMAL
    /\ ctx.emergencyConditionsFalseTime > call.currentTime

\* an alert was sent after the wrap, one interval after an alert before it
C38_AlertAcrossWrap ==
    /\ LastWasUpdate
    /\ output.sendEmergencyNotification
    /\ pre.lastEmergencyMessageTime > call.currentTime

\* an alert was held back after the wrap, the interval not being over
C38_QuietAcrossWrap ==
    /\ LastWasUpdate
    /\ ctx.currentState = EMERGENCY
    /\ ~output.sendEmergencyNotification
    /\ pre.lastEmergencyMessageTime > call.currentTime

\* C31 - the two implementations agree: after every loop() iteration the
\* state machine embedded in loop() and the standalone functions, fed with
\* the same ticks and button events since boot, show the same currentState,
\* horn level, alert and confirmation emissions, throttle timestamp and
\* config request.
C31_ImplementationsAgree == hist.agree

\* C33 - the hold detection under every interleaving with the button
\* interrupt: loop() flips notificationsSilenced only while the pin is low
\* and has been low for at least 5000 ms, with a press-start timestamp that
\* belongs to the press whose flag it read and is not newer than its own
\* clock reading.
C33_RaceFreeToggle ==
    call.op = "flip"
        => /\ board.pin = LOW
           /\ now - board.race.downSince >= 5000
           /\ board.race.seenStamp = board.race.flagStamp
           /\ board.race.seenStamp <= board.race.seenClock

\* the part of C33 on the pair: the timestamp used for a flip belongs to the
\* press whose flag was read and is not newer than the clock reading
C33_ConsistentPair ==
    call.op = "flip"
        => /\ board.race.seenStamp = board.race.flagStamp
           /\ board.race.seenStamp <= board.race.seenClock

\* a flip after an undisturbed hold of 5000 ms
C33_FlipOnFullHold ==
    /\ call.op = "flip"
    /\ board.pin = LOW
    /\ now - board.race.downSince >= 5000
    /\ board.race.seenStamp = board.race.flagStamp
    /\ board.race.seenStamp <= board.race.seenClock

====
